---- MODULE Spec2Model ----
(***************************************************************************)
(* A model of fakeable.py: the registry of fakes (FakeFactory), the        *)
(* Fakeable metaclass that intercepts construction, and the created        *)
(* callbacks.  The program is single threaded: a public function runs to   *)
(* completion, except that a construction with registered callbacks is     *)
(* split into one step per callback invocation.                            *)
(***************************************************************************)
EXTENDS Integers, Sequences, FiniteSets, TLC

\* Longest callback list the model lets add_created_callback build.
MaxCallbacks == 2

\* Longest callback list where the callbacks are studied by themselves.
MaxListed == 3

\* Most additions of one callback between two clear() calls, where they are
\* counted.
MaxAdds == 2

\* Most entries that test code holds on to at once.
MaxHandles == 2

\* Most keys the model lets the registry hold at once.
MaxEntries == 2

\* Most activations of Fakeable.__call__ the interpreter nests before it
\* raises RecursionError.
RecursionLimit == 3

(***************************************************************************)
(* Classes, names, objects and argument lists                              *)
(***************************************************************************)

\* The classes whose metaclass is Fakeable (fakeable_test.py).
Entities == {"MyCoolClass", "MyCoolClassCustomFakeName"}

\* Ordinary classes, used as fake classes.
PlainClasses == {"MyUnfakeableClass1", "MyUnfakeableClass2"}

\* The class body of an entity, as the dict_ that Fakeable.__new__ receives.
ClassDict(cls) ==
    IF cls = "MyCoolClassCustomFakeName"
    THEN "__FAKE_NAME__" :> "CustomName"
    ELSE [x \in {} |-> ""]

\* Values of __FAKE_NAME__ that hash() rejects: set() stands for an object
\* of an unhashable type.
UnhashableNames == {"set()"}
Hashable(value) == value \notin UnhashableNames

\* Mutant: Fakeable.__new__ without the hash() call.
Fakeable_new_exception_NoHashCheck(name, dict_) == "None"

\* Fakeable.__new__, the exception that leaves it: the TypeError of
\* hash(__FAKE_NAME__) for an explicit name that is not hashable; "None"
\* when it returns the type.
Fakeable_new_exception(name, dict_) ==
    IF "__FAKE_NAME__" \in DOMAIN dict_ /\ ~Hashable(dict_["__FAKE_NAME__"])
    THEN "TypeError"
    ELSE "None"

\* Fakeable.__new__: keep an explicit __FAKE_NAME__, default to the class name.
Fakeable_new(name, dict_) ==
    IF "__FAKE_NAME__" \in DOMAIN dict_
    THEN dict_
    ELSE ("__FAKE_NAME__" :> name) @@ dict_

\* The types of fakeable_test.py once the module is imported: each class
\* statement went through Fakeable.__new__.
\* A type made by Fakeable.__new__: its attributes, and the name it declared
\* when it was defined.
Type(name, dict_) ==
    [attrs |-> Fakeable_new(name, dict_),
     declared |-> Fakeable_new(name, dict_)["__FAKE_NAME__"]]

ImportedTypes == [c \in Entities |-> Type(c, ClassDict(c))]

\* A registry key is the class object itself or a name string; a class and
\* the string spelling its name are different keys.
ClassKey(cls) == <<"class", cls>>
NameKey(name) == <<"name", name>>
Keys == {ClassKey(c) : c \in Entities}
        \cup {NameKey(ImportedTypes[c].attrs["__FAKE_NAME__"]) : c \in Entities}

\* Argument lists (*args, **kwargs) of a construction.
NoArgs == [pos |-> <<>>, kw |-> {}]
ArgLists == {NoArgs, [pos |-> <<1>>, kw |-> {<<"arg2", 2>>}]}

\* Objects.  A freshly constructed instance has a positive id; the prebuilt
\* objects of the tests have negative ids.
NoObj == [type |-> "", args |-> NoArgs, id |-> 0]
fake_object1 == [type |-> "object", args |-> NoArgs, id |-> -1]
fake_object2 == [type |-> "object", args |-> NoArgs, id |-> -2]
FixedObjects == {fake_object1, fake_object2}

\* None, as a value that can be registered, produced and returned; NoObj
\* stands for no value at all.
None == [type |-> "NoneType", args |-> NoArgs, id |-> -3]

\* A factory that is no class: a function that returns None.
NoneFactory == "return_None"

\* type.__call__(klass, *args, **kwargs) of an ordinary construction: a new
\* object of that type whose __init__ received exactly these arguments.
New(klass, args, id) == [type |-> klass, args |-> args, id |-> id]

\* The smallest positive id that no object of objs carries: the identity of
\* a new object differs from that of every object still referenced.
Fresh(objs) ==
    LET used == {o.id : o \in objs}
    IN CHOOSE n \in 1..(Cardinality(used) + 1) :
          /\ n \notin used
          /\ \A m \in 1..(n - 1) : m \in used

\* The created callbacks of the tests, and what each does when invoked.
Recorders == {"callback1", "callback2"}
Callbacks == Recorders \cup {"raiser"}
CallbackBehaviour(cb) ==
    IF cb \in {"raiser", "not_found_raiser"} THEN "raise" ELSE "record"

\* Callbacks that call the module from inside a notification and return:
\* self_remover removes itself, remover1 removes callback1, clearer calls
\* clear().
Reentrant == {"self_remover", "remover1", "clearer"}

\* Callbacks that add a callback from inside a notification and return:
\* adder1 adds callback1, self_adder adds itself once more.
Adders == {"adder1", "self_adder"}

\* The class of the exception that a raising callback raises: any class the
\* library has no handler for, or the library's own FAKE_FACTORY.FakeNotFound.
CallbackException(cb) ==
    IF cb = "not_found_raiser" THEN "FakeNotFound" ELSE "Exception"

VARIABLES
    fake_factories,              \* FAKE_FACTORY.fake_factories: key -> entry
    fakeable_created_callbacks,  \* FAKE_FACTORY.fakeable_created_callbacks
    stack,                       \* the Fakeable.__call__ activations in progress
    notifications,               \* notify_fakeable_created calls of the latest call
    invocations,                 \* callback invocations of the latest call
    constructed,                 \* objects built by constructors in the latest call
    outcome,                     \* the latest public call and what it gave its caller
    before,                      \* the call that preceded the latest construction
    tally,                       \* add/remove calls per callback since the last clear
    handles,                     \* the entries that test code holds on to
    framework,                   \* what the latest test hook called, in order
    types                        \* the Fakeable classes, by class name

vars == <<fake_factories, fakeable_created_callbacks, stack, notifications,
          invocations, constructed, outcome, before, tally, handles, framework,
          types>>

\* Mutant: the name is the one the class declared when it was defined.
FAKE_NAME_AtDefinition(cls) == types[cls].declared

\* cls.__FAKE_NAME__
FAKE_NAME(cls) == types[cls].attrs["__FAKE_NAME__"]

(***************************************************************************)
(* Entries of the registry                                                 *)
(***************************************************************************)

\* FakeObjectEntry(fake_factory, name, value)
FakeObjectEntry(name, value) ==
    [kind |-> "object", name |-> name, obj |-> value, cls |-> ""]

\* FakeClassEntry(fake_factory, name, value)
FakeClassEntry(name, value) ==
    [kind |-> "class", name |-> name, obj |-> NoObj, cls |-> value]

\* Mutant: get() hands out a copy of the stored value.
FakeObjectEntry_get_Copies(entry, args) ==
    [status |-> "ok", instance |-> [entry.obj EXCEPT !.id = entry.obj.id - 2],
     made |-> <<>>, callee |-> ""]

\* FakeObjectEntry.get: the stored value, whatever the arguments.
FakeObjectEntry_get(entry, args) ==
    [status |-> "ok", instance |-> entry.obj, made |-> <<>>, callee |-> ""]

\* Mutant: get() calls self.value() without the arguments.
FakeClassEntry_get_DropsArgs(entry, args, id) ==
    [status |-> "ok", instance |-> New(entry.cls, NoArgs, id),
     made |-> <<New(entry.cls, NoArgs, id)>>, callee |-> ""]

\* Mutant: a Fakeable fake class is instantiated like an ordinary class,
\* without going through Fakeable.__call__.
FakeClassEntry_get_NoInterception(entry, args, id) ==
    [status |-> "ok", instance |-> New(entry.cls, args, id),
     made |-> <<New(entry.cls, args, id)>>, callee |-> ""]

\* FakeClassEntry.get: self.value(*args, **kwargs).  An ordinary class builds
\* a new instance; a Fakeable class is constructed through Fakeable.__call__.
FakeClassEntry_get(entry, args, id) ==
    IF entry.cls \in Entities
    THEN [status |-> "call", instance |-> NoObj, made |-> <<>>, callee |-> entry.cls]
    ELSE IF entry.cls = NoneFactory
    THEN [status |-> "ok", instance |-> None, made |-> <<>>, callee |-> ""]
    ELSE [status |-> "ok", instance |-> New(entry.cls, args, id),
          made |-> <<New(entry.cls, args, id)>>, callee |-> ""]

(***************************************************************************)
(* FakeFactory                                                             *)
(***************************************************************************)

DictSet(d, k, v) == [x \in DOMAIN d \cup {k} |-> IF x = k THEN v ELSE d[x]]
DictDel(d, k) == [x \in DOMAIN d \ {k} |-> d[x]]

\* Mutant: set_fake_class makes its entry the only one of the registry.
FakeFactory_set_fake_class_Exclusive(name, value) ==
    [fake_factories |-> name :> FakeClassEntry(name, value),
     ret |-> FakeClassEntry(name, value)]

\* FakeFactory.set_fake_class: the new registry and the entry returned.
FakeFactory_set_fake_class(name, value) ==
    [fake_factories |-> DictSet(fake_factories, name, FakeClassEntry(name, value)),
     ret |-> FakeClassEntry(name, value)]

\* Mutant: set_fake_object keeps an entry the key already has (setdefault).
FakeFactory_set_fake_object_KeepsExisting(name, value) ==
    [fake_factories |-> IF name \in DOMAIN fake_factories THEN fake_factories
                        ELSE DictSet(fake_factories, name, FakeObjectEntry(name, value)),
     ret |-> FakeObjectEntry(name, value)]

\* FakeFactory.set_fake_object
FakeFactory_set_fake_object(name, value) ==
    [fake_factories |-> DictSet(fake_factories, name, FakeObjectEntry(name, value)),
     ret |-> FakeObjectEntry(name, value)]

\* Mutant: unset reports the key without deleting it.
FakeFactory_unset_KeepsEntry(name) ==
    [fake_factories |-> fake_factories,
     ret |-> IF name \in DOMAIN fake_factories THEN "True" ELSE "False"]

\* FakeFactory.unset: del, and True; False on KeyError.
FakeFactory_unset(name) ==
    IF name \in DOMAIN fake_factories
    THEN [fake_factories |-> DictDel(fake_factories, name), ret |-> "True"]
    ELSE [fake_factories |-> fake_factories, ret |-> "False"]

\* Mutant: clear empties the registry and forgets the callbacks.
FakeFactory_clear_KeepsCallbacks ==
    [fake_factories |-> [x \in {} |-> NoObj],
     fakeable_created_callbacks |-> fakeable_created_callbacks]

\* FakeFactory.clear
FakeFactory_clear ==
    [fake_factories |-> [x \in {} |-> NoObj], fakeable_created_callbacks |-> <<>>]

\* Mutant: the callback is put at the head of the list (insert(0, callback)).
FakeFactory_add_created_callback_Prepends(callback) ==
    <<callback>> \o fakeable_created_callbacks

\* Mutant: a callback that is already registered is not registered again.
FakeFactory_add_created_callback_OnlyOnce(callback) ==
    IF \E i \in 1..Len(fakeable_created_callbacks) : fakeable_created_callbacks[i] = callback
    THEN fakeable_created_callbacks
    ELSE Append(fakeable_created_callbacks, callback)

\* FakeFactory.add_created_callback
FakeFactory_add_created_callback(callback) ==
    Append(fakeable_created_callbacks, callback)

\* list.remove: drop the first occurrence.
RECURSIVE ListRemove(_, _)
ListRemove(list, x) ==
    IF list = <<>> THEN <<>>
    ELSE IF Head(list) = x THEN Tail(list)
    ELSE <<Head(list)>> \o ListRemove(Tail(list), x)

\* Mutant: the last occurrence of the callback is the one removed.
FakeFactory_remove_created_callback_RemovesLast(callback) ==
    LET at == {i \in 1..Len(fakeable_created_callbacks) :
                  fakeable_created_callbacks[i] = callback}
        last == CHOOSE i \in at : \A j \in at : j <= i
    IN IF at # {}
       THEN [fakeable_created_callbacks |->
                SubSeq(fakeable_created_callbacks, 1, last - 1)
                \o SubSeq(fakeable_created_callbacks, last + 1,
                          Len(fakeable_created_callbacks)),
             ret |-> "True"]
       ELSE [fakeable_created_callbacks |-> fakeable_created_callbacks, ret |-> "False"]

\* FakeFactory.remove_created_callback
FakeFactory_remove_created_callback(callback) ==
    IF \E i \in 1..Len(fakeable_created_callbacks) : fakeable_created_callbacks[i] = callback
    THEN [fakeable_created_callbacks |-> ListRemove(fakeable_created_callbacks, callback),
          ret |-> "True"]
    ELSE [fakeable_created_callbacks |-> fakeable_created_callbacks, ret |-> "False"]

\* FakeFactory.get: FakeNotFound on KeyError, else entry.get(*args, **kwargs).
\* The lookup self.fake_factories[name] of a name that is not hashable raises
\* TypeError, which the except KeyError clause lets through.
FakeFactory_get(name, args, id) ==
    IF ~Hashable(name[2])
    THEN [status |-> "TypeError", instance |-> NoObj, made |-> <<>>, callee |-> ""]
    ELSE IF name \notin DOMAIN fake_factories
    THEN [status |-> "FakeNotFound", instance |-> NoObj, made |-> <<>>, callee |-> ""]
    ELSE IF fake_factories[name].kind = "object"
         THEN FakeObjectEntry_get(fake_factories[name], args)
         ELSE FakeClassEntry_get(fake_factories[name], args, id)

\* Mutant: unregister leaves the registry alone.
FakeEntry_unregister_KeepsEntry(self) ==
    [fake_factories |-> fake_factories, ret |-> "False"]

\* Mutant: unregister removes the entry of the key only if it is this entry.
FakeEntry_unregister_OnlyItself(self) ==
    IF self.name \in DOMAIN fake_factories /\ fake_factories[self.name] = self
    THEN [fake_factories |-> DictDel(fake_factories, self.name), ret |-> "True"]
    ELSE [fake_factories |-> fake_factories, ret |-> "False"]

\* FakeEntry.unregister: self.fake_factory.unset(self.name).
FakeEntry_unregister(self) == FakeFactory_unset(self.name)

\* FakeEntry.__enter__: pass.
FakeEntry_enter(self) == [fake_factories |-> fake_factories, ret |-> "None"]

\* FakeEntry.__exit__: self.unregister(), and None is returned, so that the
\* exception that ended the block, if any, goes on.
FakeEntry_exit(self, exc_type) ==
    [fake_factories |-> FakeEntry_unregister(self).fake_factories, ret |-> "None"]

(***************************************************************************)
(* What a caller observes                                                  *)
(***************************************************************************)

\* An entry in the hands of test code: the entry, and what its key had in
\* the registry right before the entry was registered (a sequence of at
\* most one entry).
Handle(entry, prior) == [entry |-> entry, prior |-> prior]

NoHandle == Handle(FakeObjectEntry(<<"", "">>, NoObj), <<>>)

\* What the registry has under key k, as a sequence of at most one entry.
Content(k) == IF k \in DOMAIN fake_factories THEN <<fake_factories[k]>> ELSE <<>>

NoKey == <<"", "">>

\* outcome and before: op is the public function, key/cls/args/value its
\* arguments, had_entry whether the key was registered when it was called
\* (for clear: whether any key was, and had_callbacks whether any callback),
\* status "returned", "raised" or "running", ret the value handed back by a
\* registry function and value the object handed back by a construction.
\* For the disposal of an entry, handle is the entry disposed of and found
\* is what the registry had under its key when the disposal began.
Observed(op) ==
    [op |-> op, key |-> NoKey, cls |-> "", args |-> NoArgs, value |-> NoObj,
     had_entry |-> FALSE, had_callbacks |-> FALSE, status |-> "returned",
     ret |-> "None", handle |-> NoHandle, found |-> <<>>]

NoOutcome == Observed("none")

\* What is kept of the call that precedes a construction: a construction, a
\* registration, an unset that removed an entry, a clear, or the removal of
\* a callback, the disposal of an entry, or a test hook.
Remembered(o) ==
    IF o.op \in {"construct", "set_fake_class", "set_fake_object"}
    THEN [o EXCEPT !.had_entry = FALSE]
    ELSE IF o.op \in {"unset", "clear"} /\ o.had_entry THEN o
    ELSE IF o.op \in {"remove_created_callback", "unregister", "__exit__", "setUp",
                     "tearDown"} THEN o
    ELSE NoOutcome

\* tally: how often each callback was added and how often it was removed
\* with success since the last clear(); kept only where counting is on.
NoTally ==
    [counting |-> FALSE, added |-> [cb \in Callbacks |-> 0],
     removed |-> [cb \in Callbacks |-> 0]]

ZeroTally == [NoTally EXCEPT !.counting = TRUE]

TallyAdded(t, cb) ==
    IF t.counting THEN [t EXCEPT !.added[cb] = @ + 1] ELSE t

TallyRemoved(t, cb, ret) ==
    IF t.counting /\ ret = "True" THEN [t EXCEPT !.removed[cb] = @ + 1] ELSE t

TallyCleared(t) == IF t.counting THEN ZeroTally ELSE t

(***************************************************************************)
(* Fakeable.__call__                                                       *)
(***************************************************************************)

NoNotification == [name |-> "", obj |-> NoObj, obj_type |-> ""]

\* Mutant: the real construction passes on the positional arguments only.
Fakeable_call_lookup_DropsKwargs(cls, args, id) ==
    LET by_class == FakeFactory_get(ClassKey(cls), args, id)
        by_name  == FakeFactory_get(NameKey(FAKE_NAME(cls)), args, id)
        real     == New(cls, [args EXCEPT !.kw = {}], id)
    IN IF by_class.status # "FakeNotFound"
       THEN [branch |-> "class"] @@ by_class
       ELSE IF by_name.status # "FakeNotFound"
       THEN [branch |-> "name"] @@ by_name
       ELSE [branch |-> "real", status |-> "ok", instance |-> real,
             made |-> <<real>>, callee |-> ""]

\* Mutant: the lookup by name comes before the lookup by class.
Fakeable_call_lookup_NameFirst(cls, args, id) ==
    LET by_class == FakeFactory_get(ClassKey(cls), args, id)
        by_name  == FakeFactory_get(NameKey(FAKE_NAME(cls)), args, id)
    IN IF by_name.status # "FakeNotFound"
       THEN [branch |-> "name"] @@ by_name
       ELSE IF by_class.status # "FakeNotFound"
       THEN [branch |-> "class"] @@ by_class
       ELSE [branch |-> "real", status |-> "ok", instance |-> New(cls, args, id),
             made |-> <<New(cls, args, id)>>, callee |-> ""]

\* Mutant: the lookup by name has no except clause.
Fakeable_call_lookup_NameMissUncaught(cls, args, id) ==
    LET by_class == FakeFactory_get(ClassKey(cls), args, id)
        by_name  == FakeFactory_get(NameKey(FAKE_NAME(cls)), args, id)
    IN IF by_class.status # "FakeNotFound"
       THEN [branch |-> "class"] @@ by_class
       ELSE [branch |-> "name"] @@ by_name

\* The base classes of a class statement: MyCoolSubclass is written
\* class MyCoolSubclass(MyCoolClass), the other classes have no Fakeable base.
Bases(cls) == IF cls = "MyCoolSubclass" THEN <<"MyCoolClass">> ELSE <<>>

\* Mutant: a class without a fake of its own uses the fake registered for
\* its base class.
Fakeable_call_lookup_ByBase(cls, args, id) ==
    LET fake_name == FAKE_NAME(cls)
        own       == FakeFactory_get(ClassKey(cls), args, id)
        by_class  == IF own.status = "FakeNotFound" /\ Bases(cls) # <<>>
                     THEN FakeFactory_get(ClassKey(Bases(cls)[1]), args, id)
                     ELSE own
        by_name   == FakeFactory_get(NameKey(fake_name), args, id)
    IN IF by_class.status # "FakeNotFound"
       THEN [branch |-> "class"] @@ by_class
       ELSE IF by_name.status # "FakeNotFound"
       THEN [branch |-> "name"] @@ by_name
       ELSE [branch |-> "real", status |-> "ok", instance |-> New(cls, args, id),
             made |-> <<New(cls, args, id)>>, callee |-> ""]

\* Fakeable.__call__, up to the point where it has an instance: the lookup by
\* class, then by name, then the real construction.
Fakeable_call_lookup(cls, args, id) ==
    LET fake_name == FAKE_NAME(cls)
        by_class  == FakeFactory_get(ClassKey(cls), args, id)
        by_name   == FakeFactory_get(NameKey(fake_name), args, id)
    IN IF by_class.status # "FakeNotFound"
       THEN [branch |-> "class"] @@ by_class
       ELSE IF by_name.status # "FakeNotFound"
       THEN [branch |-> "name"] @@ by_name
       ELSE [branch |-> "real", status |-> "ok", instance |-> New(cls, args, id),
             made |-> <<New(cls, args, id)>>, callee |-> ""]

\* Mutant: the branch that found the fake by name returns without notifying.
Fakeable_call_notify_NotByName(cls, branch, instance) ==
    IF branch = "name" THEN <<>>
    ELSE << [name |-> FAKE_NAME(cls), obj |-> instance, obj_type |-> cls] >>

\* Mutant: obj_type is the type of the object that was produced.
Fakeable_call_notify_InstanceType(cls, branch, instance) ==
    << [name |-> FAKE_NAME(cls), obj |-> instance, obj_type |-> instance.type] >>

\* Fakeable.__call__ from the point where FAKE_FACTORY.get of the given
\* branch has raised FakeNotFound: the lookup by name if that was the lookup
\* by class, the real construction otherwise.
Fakeable_call_after_miss(cls, args, id, branch) ==
    LET by_name == FakeFactory_get(NameKey(FAKE_NAME(cls)), args, id)
    IN IF branch = "class" /\ by_name.status # "FakeNotFound"
       THEN [branch |-> "name"] @@ by_name
       ELSE [branch |-> "real", status |-> "ok", instance |-> New(cls, args, id),
             made |-> <<New(cls, args, id)>>, callee |-> ""]

\* The notify_fakeable_created calls that the taken branch of
\* Fakeable.__call__ makes between having the instance and returning it.
Fakeable_call_notify(cls, branch, instance) ==
    << [name |-> FAKE_NAME(cls), obj |-> instance, obj_type |-> cls] >>

\* An activation of Fakeable.__call__.  pc "call_factory": about to call the
\* fake class, itself Fakeable; "await": inside that call; "notify": inside
\* the loop of notify_fakeable_created, cur being its arguments and idx the
\* position of the list iterator.  The loop iterates the list object that
\* was FAKE_FACTORY.fakeable_created_callbacks when it began: iter_live says
\* that this is still the registered list, iter_list holds it otherwise.
Activation(cls, args, r) ==
    [cls |-> cls, args |-> args, branch |-> r.branch, callee |-> r.callee,
     pc |-> IF r.status = "call" THEN "call_factory" ELSE "notify",
     instance |-> r.instance,
     pending |-> IF r.status = "call" THEN <<>>
                 ELSE Fakeable_call_notify(cls, r.branch, r.instance),
     cur |-> NoNotification, idx |-> 0, iter_live |-> TRUE, iter_list |-> <<>>]

\* Runs the topmost activation, which has its instance, as far as it goes
\* without invoking a callback: each pending notify_fakeable_created call is
\* entered, a loop over an empty list ends at once, and an activation with
\* nothing left to notify returns its instance to its caller, which then
\* notifies in turn.  cbs is the registered callback list, notifs the log:
\* each entry holds the arguments of the call, its depth and the list
\* registered when the call began.
RECURSIVE Advance(_, _, _)
Advance(stk, cbs, notifs) ==
    LET top == Len(stk)
        f   == stk[top]
    IN IF f.pending = <<>>
       THEN IF top = 1
            THEN [stack |-> <<>>, notifications |-> notifs, done |-> TRUE,
                  value |-> f.instance]
            ELSE LET p  == stk[top - 1]
                     p2 == [p EXCEPT !.pc = "notify", !.instance = f.instance,
                                     !.pending = Fakeable_call_notify(p.cls, p.branch, f.instance)]
                 IN Advance(SubSeq(stk, 1, top - 2) \o <<p2>>, cbs, notifs)
       ELSE LET n  == Head(f.pending)
                f2 == [f EXCEPT !.pc = "notify", !.pending = Tail(f.pending), !.cur = n,
                                !.idx = 0, !.iter_live = TRUE, !.iter_list = <<>>]
                logged == Append(notifs, n @@ [depth |-> top, callbacks |-> cbs])
            IN IF cbs = <<>>
               THEN Advance([stk EXCEPT ![top] = f2], cbs, logged)
               ELSE [stack |-> [stk EXCEPT ![top] = f2], notifications |-> logged,
                     done |-> FALSE, value |-> NoObj]

\* A construction MyClass(*args, **kwargs) by test code: Fakeable.__call__.
\* The previous result is still referenced by the test, so a new object
\* differs from it.  A FakeNotFound that no except clause of the lookups
\* takes leaves the call as any exception does.
Fakeable_call(cls, args) ==
    /\ stack = <<>>
    /\ LET r == Fakeable_call_lookup(cls, args, Fresh({outcome.value}))
           f == Activation(cls, args, r)
           a == IF r.status = "call"
                THEN [stack |-> <<f>>, notifications |-> <<>>, done |-> FALSE, value |-> NoObj]
                ELSE IF r.status \in {"FakeNotFound", "TypeError"}
                THEN [stack |-> <<>>, notifications |-> <<>>, done |-> FALSE, value |-> NoObj]
                ELSE Advance(<<f>>, fakeable_created_callbacks, <<>>)
       IN /\ stack' = a.stack
          /\ notifications' = a.notifications
          /\ constructed' = r.made
          /\ outcome' = [Observed("construct") EXCEPT
                            !.cls = cls, !.args = args, !.value = a.value,
                            !.status = IF a.done THEN "returned"
                                       ELSE IF r.status \in {"FakeNotFound", "TypeError"}
                                       THEN "raised"
                                       ELSE "running",
                            !.ret = IF r.status \in {"FakeNotFound", "TypeError"}
                                    THEN r.status
                                    ELSE "None"]
    /\ invocations' = <<>>
    /\ before' = Remembered(outcome)
    /\ UNCHANGED <<fake_factories, fakeable_created_callbacks, tally, handles, framework,
                   types>>

\* FakeClassEntry.get calling a fake class that is itself Fakeable: a nested
\* Fakeable.__call__ with the same arguments, inside FAKE_FACTORY.get of the
\* topmost activation.  Past the interpreter's limit the call raises
\* RecursionError, which no activation catches.
call_fake_class ==
    /\ stack # <<>>
    /\ stack[Len(stack)].pc = "call_factory"
    /\ LET top   == Len(stack)
           f     == stack[top]
           live  == {before.value} \cup {constructed[i] : i \in 1..Len(constructed)}
           r     == Fakeable_call_lookup(f.callee, f.args, Fresh(live))
           stk   == [stack EXCEPT ![top].pc = "await"] \o <<Activation(f.callee, f.args, r)>>
           a     == IF r.status = "call"
                    THEN [stack |-> stk, notifications |-> notifications,
                          done |-> FALSE, value |-> NoObj]
                    ELSE Advance(stk, fakeable_created_callbacks, notifications)
       IN IF top >= RecursionLimit
          THEN /\ stack' = <<>>
               /\ outcome' = [outcome EXCEPT !.status = "raised", !.ret = "RecursionError"]
               /\ UNCHANGED <<notifications, constructed>>
          ELSE /\ stack' = a.stack
               /\ notifications' = a.notifications
               /\ constructed' = constructed \o r.made
               /\ outcome' = IF a.done
                             THEN [outcome EXCEPT !.status = "returned", !.value = a.value]
                             ELSE outcome
    /\ UNCHANGED <<fake_factories, fakeable_created_callbacks, invocations, before,
                   tally, handles, framework, types>>

\* Mutant: the loop goes on to the next callback when a callback raises.
ExceptionHandler_NextCallback(cb, depth) == "none"

\* Who handles what callback cb raises in the notify_fakeable_created call of
\* the activation at this depth: nobody in the loop or in the branch of
\* Fakeable.__call__ that called it; the try block of an enclosing
\* activation when it is a FakeNotFound; the caller of the construction
\* otherwise.  "none" when the callback returns.
ExceptionHandler(cb, depth) ==
    IF CallbackBehaviour(cb) # "raise" THEN "none"
    ELSE IF CallbackException(cb) = "FakeNotFound" /\ depth > 1 THEN "enclosing"
    ELSE "caller"

\* Mutant: a callback that raises is taken off the list.
callback_body_RaiserUnregistered(cb) ==
    [fake_factories |-> fake_factories,
     fakeable_created_callbacks |->
        IF CallbackBehaviour(cb) = "raise"
        THEN FakeFactory_remove_created_callback(cb).fakeable_created_callbacks
        ELSE fakeable_created_callbacks,
     rebound |-> FALSE,
     tally |-> tally]

\* What the body of callback cb does to FAKE_FACTORY while it runs: the
\* registry and the callback list it leaves, and whether the attribute
\* fakeable_created_callbacks is bound to a new list object (clear() assigns
\* a new list, remove_created_callback changes the list in place).
callback_body(cb) ==
    IF cb \in {"self_remover", "remover1"}
    THEN LET target == IF cb = "remover1" THEN "callback1" ELSE cb
             r == FakeFactory_remove_created_callback(target)
         IN [fake_factories |-> fake_factories,
             fakeable_created_callbacks |-> r.fakeable_created_callbacks,
             rebound |-> FALSE,
             tally |-> IF target \in DOMAIN tally.added
                       THEN TallyRemoved(tally, target, r.ret) ELSE tally]
    ELSE IF cb = "clearer"
    THEN [fake_factories |-> FakeFactory_clear.fake_factories,
          fakeable_created_callbacks |-> FakeFactory_clear.fakeable_created_callbacks,
          rebound |-> TRUE,
          tally |-> TallyCleared(tally)]
    ELSE IF cb \in Adders
    THEN LET target == IF cb = "adder1" THEN "callback1" ELSE cb
         IN [fake_factories |-> fake_factories,
             fakeable_created_callbacks |-> FakeFactory_add_created_callback(target),
             rebound |-> FALSE,
             tally |-> IF target \in DOMAIN tally.added
                       THEN TallyAdded(tally, target) ELSE tally]
    ELSE [fake_factories |-> fake_factories,
          fakeable_created_callbacks |-> fakeable_created_callbacks,
          rebound |-> FALSE,
          tally |-> tally]

\* callback(name, obj, obj_type): what notify_fakeable_created passes, in
\* its call-th call since the construction began.
notify_fakeable_created_args(cb, name, obj, obj_type, depth, call) ==
    [cb |-> cb, name |-> name, obj |-> obj, obj_type |-> obj_type, depth |-> depth,
     call |-> call]

\* One iteration of the loop of FakeFactory.notify_fakeable_created in the
\* topmost activation: the list iterator yields the callback at idx and the
\* callback runs.  After the last callback the activation goes on.  What a
\* callback raises leaves the loop and the activation.  An enclosing
\* activation is inside the try block of one of its FAKE_FACTORY.get calls:
\* it takes a FakeNotFound for a failed lookup and goes on to its next
\* lookup; any other exception unwinds every activation.  The iterator
\* works on a list object: it sees what the callback removed from that
\* list or appended to it, and it keeps the old list when clear() bound a
\* new one.  The model follows a list up to MaxListed callbacks.
notify_fakeable_created_step ==
    /\ stack # <<>>
    /\ stack[Len(stack)].pc = "notify"
    /\ LET top  == Len(stack)
           f    == stack[top]
           list == IF f.iter_live THEN fakeable_created_callbacks ELSE f.iter_list
           cb   == list[f.idx + 1]
           e    == callback_body(cb)
           f2   == [f EXCEPT !.idx = f.idx + 1,
                             !.iter_live = f.iter_live /\ ~e.rebound,
                             !.iter_list = IF f.iter_live /\ e.rebound
                                           THEN fakeable_created_callbacks
                                           ELSE f.iter_list]
           rest == IF f2.iter_live THEN e.fakeable_created_callbacks ELSE f2.iter_list
           a    == Advance([stack EXCEPT ![top] = f2], e.fakeable_created_callbacks,
                           notifications)
           p    == stack[top - 1]
           live == {before.value} \cup {constructed[i] : i \in 1..Len(constructed)}
           r    == Fakeable_call_after_miss(p.cls, p.args, Fresh(live), p.branch)
           stk  == SubSeq(stack, 1, top - 2) \o <<Activation(p.cls, p.args, r)>>
           c    == IF r.status = "call"
                   THEN [stack |-> stk, notifications |-> notifications,
                         done |-> FALSE, value |-> NoObj]
                   ELSE Advance(stk, fakeable_created_callbacks, notifications)
       IN /\ f.idx < Len(list)
          /\ Len(e.fakeable_created_callbacks) <= MaxListed
          /\ invocations' = Append(invocations,
                notify_fakeable_created_args(cb, f.cur.name, f.cur.obj, f.cur.obj_type,
                                             top, Len(notifications)))
          /\ IF ExceptionHandler(cb, top) # "none"
             THEN IF ExceptionHandler(cb, top) = "enclosing"
                  THEN /\ stack' = c.stack
                       /\ notifications' = c.notifications
                       /\ constructed' = constructed \o r.made
                       /\ outcome' = IF c.done
                                     THEN [outcome EXCEPT !.status = "returned",
                                                          !.value = c.value]
                                     ELSE outcome
                  ELSE /\ stack' = <<>>
                       /\ outcome' = [outcome EXCEPT !.status = "raised",
                                                     !.ret = CallbackException(cb)]
                       /\ UNCHANGED <<notifications, constructed>>
             ELSE IF f2.idx < Len(rest)
             THEN /\ stack' = [stack EXCEPT ![top] = f2]
                  /\ UNCHANGED <<outcome, notifications, constructed>>
             ELSE /\ stack' = a.stack
                  /\ notifications' = a.notifications
                  /\ outcome' = IF a.done
                                THEN [outcome EXCEPT !.status = "returned", !.value = a.value]
                                ELSE outcome
                  /\ UNCHANGED constructed
          /\ fake_factories' = e.fake_factories
          /\ fakeable_created_callbacks' = e.fakeable_created_callbacks
          /\ tally' = e.tally
    /\ UNCHANGED <<before, handles, framework, types>>


(***************************************************************************)
(* The public functions of the module                                      *)
(***************************************************************************)

\* What every registry function leaves of the previous construction.
NoConstruction ==
    /\ notifications' = <<>>
    /\ invocations' = <<>>
    /\ constructed' = <<>>
    /\ before' = NoOutcome
    /\ framework' = <<>>
    /\ UNCHANGED <<stack, types>>

\* What fakeable.set_fake_class and fakeable.set_fake_object hand back: the
\* entry that the FAKE_FACTORY method returns is dropped, the functions have
\* no return statement.
set_fake_class_return(name, value) == "None"
set_fake_object_return(name, value) == "None"

\* fakeable.set_fake_class(name, value)
set_fake_class(name, value) ==
    /\ stack = <<>>
    /\ name \in DOMAIN fake_factories \/ Cardinality(DOMAIN fake_factories) < MaxEntries
    /\ fake_factories' = FakeFactory_set_fake_class(name, value).fake_factories
    /\ outcome' = [Observed("set_fake_class") EXCEPT
                      !.key = name, !.cls = value,
                      !.ret = set_fake_class_return(name, value),
                      !.had_entry = (name \in DOMAIN fake_factories)]
    /\ UNCHANGED <<fakeable_created_callbacks, tally, handles>>
    /\ NoConstruction

\* fakeable.set_fake_object(name, value)
set_fake_object(name, value) ==
    /\ stack = <<>>
    /\ name \in DOMAIN fake_factories \/ Cardinality(DOMAIN fake_factories) < MaxEntries
    /\ fake_factories' = FakeFactory_set_fake_object(name, value).fake_factories
    /\ outcome' = [Observed("set_fake_object") EXCEPT
                      !.key = name, !.value = value,
                      !.ret = set_fake_object_return(name, value),
                      !.had_entry = (name \in DOMAIN fake_factories)]
    /\ UNCHANGED <<fakeable_created_callbacks, tally, handles>>
    /\ NoConstruction

\* What fakeable.unset(name) hands back: the function has no return statement.
unset_return(name) == "None"

\* fakeable.unset(name)
unset(name) ==
    /\ stack = <<>>
    /\ fake_factories' = FakeFactory_unset(name).fake_factories
    /\ outcome' = [Observed("unset") EXCEPT
                      !.key = name, !.ret = unset_return(name),
                      !.had_entry = (name \in DOMAIN fake_factories)]
    /\ UNCHANGED <<fakeable_created_callbacks, tally, handles>>
    /\ NoConstruction

\* fakeable.add_created_callback(callback)
add_created_callback(callback) ==
    /\ stack = <<>>
    /\ fakeable_created_callbacks' = FakeFactory_add_created_callback(callback)
    /\ outcome' = [Observed("add_created_callback") EXCEPT !.cls = callback]
    /\ tally' = TallyAdded(tally, callback)
    /\ UNCHANGED <<fake_factories, handles>>
    /\ NoConstruction

\* fakeable.remove_created_callback(callback)
remove_created_callback(callback) ==
    /\ stack = <<>>
    /\ fakeable_created_callbacks' =
          FakeFactory_remove_created_callback(callback).fakeable_created_callbacks
    /\ outcome' = [Observed("remove_created_callback") EXCEPT
                      !.cls = callback,
                      !.ret = FakeFactory_remove_created_callback(callback).ret]
    /\ tally' = TallyRemoved(tally, callback,
                             FakeFactory_remove_created_callback(callback).ret)
    /\ UNCHANGED <<fake_factories, handles>>
    /\ NoConstruction

\* fakeable.clear()
clear ==
    /\ stack = <<>>
    /\ fake_factories' = FakeFactory_clear.fake_factories
    /\ fakeable_created_callbacks' = FakeFactory_clear.fakeable_created_callbacks
    /\ outcome' = [Observed("clear") EXCEPT
                      !.had_entry = (DOMAIN fake_factories # {}),
                      !.had_callbacks = (fakeable_created_callbacks # <<>>)]
    /\ tally' = TallyCleared(tally)
    /\ UNCHANGED handles
    /\ NoConstruction

(***************************************************************************)
(* Entries as context managers                                             *)
(***************************************************************************)

\* h = FAKE_FACTORY.set_fake_class(name, value): test code registers through
\* the method and keeps the entry that it returns.
FAKE_FACTORY_set_fake_class(name, value) ==
    /\ stack = <<>>
    /\ name \in DOMAIN fake_factories \/ Cardinality(DOMAIN fake_factories) < MaxEntries
    /\ Cardinality(handles) < MaxHandles
    /\ fake_factories' = FakeFactory_set_fake_class(name, value).fake_factories
    /\ handles' = handles \cup
          {Handle(FakeFactory_set_fake_class(name, value).ret, Content(name))}
    /\ outcome' = [Observed("set_fake_class") EXCEPT
                      !.key = name, !.cls = value,
                      !.ret = "FakeClassEntry",
                      !.handle = Handle(FakeFactory_set_fake_class(name, value).ret,
                                        Content(name)),
                      !.had_entry = (name \in DOMAIN fake_factories)]
    /\ UNCHANGED <<fakeable_created_callbacks, tally>>
    /\ NoConstruction

\* h = FAKE_FACTORY.set_fake_object(name, value)
FAKE_FACTORY_set_fake_object(name, value) ==
    /\ stack = <<>>
    /\ name \in DOMAIN fake_factories \/ Cardinality(DOMAIN fake_factories) < MaxEntries
    /\ Cardinality(handles) < MaxHandles
    /\ fake_factories' = FakeFactory_set_fake_object(name, value).fake_factories
    /\ handles' = handles \cup
          {Handle(FakeFactory_set_fake_object(name, value).ret, Content(name))}
    /\ outcome' = [Observed("set_fake_object") EXCEPT
                      !.key = name, !.value = value,
                      !.ret = "FakeObjectEntry",
                      !.handle = Handle(FakeFactory_set_fake_object(name, value).ret,
                                        Content(name)),
                      !.had_entry = (name \in DOMAIN fake_factories)]
    /\ UNCHANGED <<fakeable_created_callbacks, tally>>
    /\ NoConstruction

\* h.unregister(), after which test code lets go of h.
call_unregister(h) ==
    /\ stack = <<>>
    /\ h \in handles
    /\ fake_factories' = FakeEntry_unregister(h.entry).fake_factories
    /\ handles' = handles \ {h}
    /\ outcome' = [Observed("unregister") EXCEPT
                      !.key = h.entry.name, !.handle = h,
                      !.found = Content(h.entry.name),
                      !.had_entry = (h.entry.name \in DOMAIN fake_factories)]
    /\ UNCHANGED <<fakeable_created_callbacks, tally>>
    /\ NoConstruction

\* with h: the with statement calls h.__enter__() and runs its block.
with_enter(h) ==
    /\ stack = <<>>
    /\ h \in handles
    /\ fake_factories' = FakeEntry_enter(h.entry).fake_factories
    /\ UNCHANGED handles
    /\ outcome' = [Observed("__enter__") EXCEPT
                      !.key = h.entry.name, !.handle = h,
                      !.had_entry = (h.entry.name \in DOMAIN fake_factories)]
    /\ UNCHANGED <<fakeable_created_callbacks, tally>>
    /\ NoConstruction

\* The block of with h: ends, by running to its end (exc_type "None") or by
\* an exception: the with statement calls h.__exit__(exc_type, ...), and
\* raises the exception again because __exit__ returns None.  __enter__
\* leaves no trace, so the block may have been entered at any time since h
\* was made.
with_exit(h, exc_type) ==
    /\ stack = <<>>
    /\ h \in handles
    /\ fake_factories' = FakeEntry_exit(h.entry, exc_type).fake_factories
    /\ handles' = handles \ {h}
    /\ outcome' = [Observed("__exit__") EXCEPT
                      !.key = h.entry.name, !.handle = h,
                      !.found = Content(h.entry.name),
                      !.had_entry = (h.entry.name \in DOMAIN fake_factories),
                      !.status = IF exc_type = "None" THEN "returned" ELSE "raised",
                      !.ret = exc_type]
    /\ UNCHANGED <<fakeable_created_callbacks, tally>>
    /\ NoConstruction

(***************************************************************************)
(* Class statements and class attributes                                   *)
(***************************************************************************)

\* Classes that test code defines while it runs, and the class bodies it
\* gives them: no __FAKE_NAME__, a string, an unhashable object.
NewTypes == {"NameNotHashable"}
ClassBodies ==
    {[x \in {} |-> ""], "__FAKE_NAME__" :> "CustomName", "__FAKE_NAME__" :> "set()"}

\* The explicit name of a class body as a registry key, NoKey without one.
ExplicitName(dict_) ==
    IF "__FAKE_NAME__" \in DOMAIN dict_ THEN NameKey(dict_["__FAKE_NAME__"]) ELSE NoKey

\* class name(six.with_metaclass(fakeable.Fakeable)): <dict_>, executed by
\* test code: Fakeable.__new__ makes the type, or raises and no class is
\* bound to the name.
class_statement(name, dict_) ==
    /\ stack = <<>>
    /\ types' = IF Fakeable_new_exception(name, dict_) = "None"
                THEN (name :> Type(name, dict_)) @@ types
                ELSE types
    /\ outcome' = [Observed("class") EXCEPT
                      !.cls = name,
                      !.key = ExplicitName(dict_),
                      !.had_entry = (name \in DOMAIN types),
                      !.status = IF Fakeable_new_exception(name, dict_) = "None"
                                 THEN "returned" ELSE "raised",
                      !.ret = Fakeable_new_exception(name, dict_)]
    /\ notifications' = <<>>
    /\ invocations' = <<>>
    /\ constructed' = <<>>
    /\ before' = NoOutcome
    /\ framework' = <<>>
    /\ UNCHANGED <<fake_factories, fakeable_created_callbacks, stack, tally, handles>>

\* cls.__FAKE_NAME__ = value, executed by test code: the attribute that
\* Fakeable.__new__ stored is an ordinary class attribute.
setattr_FAKE_NAME(cls, value) ==
    /\ stack = <<>>
    /\ cls \in DOMAIN types
    /\ types' = [types EXCEPT ![cls].attrs = "__FAKE_NAME__" :> value]
    /\ outcome' = [Observed("setattr") EXCEPT !.cls = cls, !.key = NameKey(value)]
    /\ notifications' = <<>>
    /\ invocations' = <<>>
    /\ constructed' = <<>>
    /\ before' = NoOutcome
    /\ framework' = <<>>
    /\ UNCHANGED <<fake_factories, fakeable_created_callbacks, stack, tally, handles>>

(***************************************************************************)
(* The hooks of FakeableCleanupMixin                                       *)
(***************************************************************************)

\* An entry of the log of a hook: the function the hook called and the
\* exception that left it ("None" when it returned).
Called(call, exc) == [call |-> call, exc |-> exc]

\* The exceptions a superclass method of a test case raises; "None" for a
\* method that returns.
HookExceptions == {"None", "ValueError"}

\* super(FakeableCleanupMixin, self).setUp(): the setUp of the next class in
\* the method resolution order.  It is code of the test suite: it may
\* register a fixture fake (under the key fixture, NoKey for none) and it
\* returns or raises exc.
super_setUp(fixture, exc) ==
    [fake_factories |-> IF fixture = NoKey THEN fake_factories
                        ELSE FakeFactory_set_fake_object(fixture, fake_object1).fake_factories,
     exc |-> exc]

\* Mutant: the hook clears the registry and then runs the superclass's setUp.
FakeableCleanupMixin_setUp_ClearsFirst(fixture, exc) ==
    [fake_factories |-> IF fixture = NoKey THEN FakeFactory_clear.fake_factories
                        ELSE DictSet(FakeFactory_clear.fake_factories, fixture,
                                     FakeObjectEntry(fixture, fake_object1)),
     fakeable_created_callbacks |-> FakeFactory_clear.fakeable_created_callbacks,
     cleared |-> TRUE,
     calls |-> <<Called("clear", "None"), Called("super.setUp", exc)>>,
     exc |-> exc]

\* Mutant: clear() runs in a finally clause, also when the superclass's
\* setUp raises.
FakeableCleanupMixin_setUp_ClearsAnyway(fixture, exc) ==
    [fake_factories |-> FakeFactory_clear.fake_factories,
     fakeable_created_callbacks |-> FakeFactory_clear.fakeable_created_callbacks,
     cleared |-> TRUE,
     calls |-> <<Called("super.setUp", exc), Called("clear", "None")>>,
     exc |-> exc]

\* FakeableCleanupMixin.setUp: the superclass's setUp, then clear(); an
\* exception of the superclass's setUp leaves the method before clear().
FakeableCleanupMixin_setUp(fixture, exc) ==
    LET s == super_setUp(fixture, exc)
    IN IF s.exc # "None"
       THEN [fake_factories |-> s.fake_factories,
             fakeable_created_callbacks |-> fakeable_created_callbacks,
             cleared |-> FALSE,
             calls |-> <<Called("super.setUp", s.exc)>>,
             exc |-> s.exc]
       ELSE [fake_factories |-> FakeFactory_clear.fake_factories,
             fakeable_created_callbacks |-> FakeFactory_clear.fakeable_created_callbacks,
             cleared |-> TRUE,
             calls |-> <<Called("super.setUp", "None"), Called("clear", "None")>>,
             exc |-> "None"]

\* x.setUp() on a test case that inherits from FakeableCleanupMixin.
setUp(fixture, exc) ==
    /\ stack = <<>>
    /\ \/ fixture = NoKey
       \/ fixture \in DOMAIN fake_factories
       \/ Cardinality(DOMAIN fake_factories) < MaxEntries
    /\ LET r == FakeableCleanupMixin_setUp(fixture, exc)
       IN /\ fake_factories' = r.fake_factories
          /\ fakeable_created_callbacks' = r.fakeable_created_callbacks
          /\ framework' = r.calls
          /\ tally' = IF r.cleared THEN TallyCleared(tally) ELSE tally
          /\ outcome' = [Observed("setUp") EXCEPT
                            !.key = fixture,
                            !.had_entry = (DOMAIN fake_factories # {}),
                            !.had_callbacks = (fakeable_created_callbacks # <<>>),
                            !.status = IF r.exc = "None" THEN "returned" ELSE "raised",
                            !.ret = r.exc]
    /\ notifications' = <<>>
    /\ invocations' = <<>>
    /\ constructed' = <<>>
    /\ before' = NoOutcome
    /\ UNCHANGED <<stack, handles, types>>

\* The ways clear() ends inside a hook: it returns ("None"), or an
\* asynchronous exception (a KeyboardInterrupt of the test run) leaves it
\* before its first statement, between its two statements or after them.
ClearFailure == "KeyboardInterrupt"
ClearInterrupts == {"at_entry", "between", "at_exit"}
ClearEndings == {"None"} \cup ClearInterrupts

\* FakeFactory.clear that ends in the way given: the registry and the
\* callback list it leaves, and the exception that leaves it.
FakeFactory_clear_ending(ending) ==
    [fake_factories |-> IF ending = "at_entry" THEN fake_factories
                        ELSE FakeFactory_clear.fake_factories,
     fakeable_created_callbacks |-> IF ending \in {"at_entry", "between"} THEN fakeable_created_callbacks
                                    ELSE FakeFactory_clear.fakeable_created_callbacks,
     exc |-> IF ending = "None" THEN "None" ELSE ClearFailure]

\* super(FakeableCleanupMixin, self).tearDown(): the tearDown of the next
\* class in the method resolution order; it returns or raises exc.
super_tearDown(exc) == [exc |-> exc]

\* Mutant: the hook runs the superclass's tearDown only when clear() returns
\* (no try/finally).
FakeableCleanupMixin_tearDown_NoFinally(ending, exc) ==
    LET c == FakeFactory_clear_ending(ending)
    IN [fake_factories |-> c.fake_factories,
        fakeable_created_callbacks |-> c.fakeable_created_callbacks,
        cleared |-> c.exc = "None",
        calls |-> IF c.exc = "None"
                  THEN <<Called("clear", "None"), Called("super.tearDown", exc)>>
                  ELSE <<Called("clear", c.exc)>>,
        exc |-> IF c.exc = "None" THEN super_tearDown(exc).exc ELSE c.exc]

\* Mutant: the hook runs the superclass's tearDown first and clears only
\* when it returns.
FakeableCleanupMixin_tearDown_TearDownFirst(ending, exc) ==
    LET t == super_tearDown(exc)
        c == FakeFactory_clear_ending(ending)
    IN IF t.exc # "None"
       THEN [fake_factories |-> fake_factories,
             fakeable_created_callbacks |-> fakeable_created_callbacks,
             cleared |-> FALSE,
             calls |-> <<Called("super.tearDown", t.exc)>>,
             exc |-> t.exc]
       ELSE [fake_factories |-> c.fake_factories,
             fakeable_created_callbacks |-> c.fakeable_created_callbacks,
             cleared |-> c.exc = "None",
             calls |-> <<Called("super.tearDown", "None"), Called("clear", c.exc)>>,
             exc |-> c.exc]

\* FakeableCleanupMixin.tearDown: try: clear() finally: super().tearDown().
\* The finally clause runs however clear() ends; an exception of the
\* superclass's tearDown leaves the method in place of the one of clear().
FakeableCleanupMixin_tearDown(ending, exc) ==
    LET c == FakeFactory_clear_ending(ending)
        t == super_tearDown(exc)
    IN [fake_factories |-> c.fake_factories,
        fakeable_created_callbacks |-> c.fakeable_created_callbacks,
        cleared |-> c.exc = "None",
        calls |-> <<Called("clear", c.exc), Called("super.tearDown", t.exc)>>,
        exc |-> IF t.exc # "None" THEN t.exc ELSE c.exc]

\* x.tearDown() on a test case that inherits from FakeableCleanupMixin.
tearDown(ending, exc) ==
    /\ stack = <<>>
    /\ LET r == FakeableCleanupMixin_tearDown(ending, exc)
       IN /\ fake_factories' = r.fake_factories
          /\ fakeable_created_callbacks' = r.fakeable_created_callbacks
          /\ framework' = r.calls
          /\ tally' = IF r.cleared THEN TallyCleared(tally) ELSE tally
          /\ outcome' = [Observed("tearDown") EXCEPT
                            !.had_entry = (DOMAIN fake_factories # {}),
                            !.had_callbacks = (fakeable_created_callbacks # <<>>),
                            !.status = IF r.exc = "None" THEN "returned" ELSE "raised",
                            !.ret = r.exc]
    /\ notifications' = <<>>
    /\ invocations' = <<>>
    /\ constructed' = <<>>
    /\ before' = NoOutcome
    /\ UNCHANGED <<stack, handles, types>>

(***************************************************************************)
(* The specification                                                       *)
(***************************************************************************)

\* FakeFactory.__init__, at import of the module.
Init ==
    /\ fake_factories = [x \in {} |-> NoObj]
    /\ fakeable_created_callbacks = <<>>
    /\ stack = <<>>
    /\ notifications = <<>>
    /\ invocations = <<>>
    /\ constructed = <<>>
    /\ outcome = NoOutcome
    /\ before = NoOutcome
    /\ tally = NoTally
    /\ handles = {}
    /\ framework = <<>>
    /\ types = ImportedTypes

\* Whether the callback list may still grow, in a model of bounded lists.
Room(n) == Len(fakeable_created_callbacks) < n

Next ==
    \/ \E k \in Keys, v \in PlainClasses : set_fake_class(k, v)
    \/ \E k \in Keys, v \in FixedObjects : set_fake_object(k, v)
    \/ \E k \in Keys : unset(k)
    \/ \E cb \in Recorders : Room(MaxCallbacks) /\ add_created_callback(cb)
    \/ \E cb \in Recorders : remove_created_callback(cb)
    \/ clear
    \/ \E c \in Entities, a \in ArgLists : Fakeable_call(c, a)
    \/ notify_fakeable_created_step

Spec == Init /\ [][Next]_vars

\* The same program with raising callbacks and with Fakeable classes
\* registered as fake classes; the other overrides are the fixed object
\* None and the factory that returns None.
NestedCallbacks == {"callback1", "raiser", "not_found_raiser"}

NextNested ==
    \/ \E k \in Keys, v \in Entities \cup {NoneFactory} : set_fake_class(k, v)
    \/ \E k \in Keys : set_fake_object(k, None)
    \/ \E k \in Keys : unset(k)
    \/ \E cb \in NestedCallbacks : Room(MaxCallbacks) /\ add_created_callback(cb)
    \/ \E cb \in NestedCallbacks : remove_created_callback(cb)
    \/ clear
    \/ \E c \in Entities : Fakeable_call(c, NoArgs)
    \/ call_fake_class
    \/ notify_fakeable_created_step

SpecNested == Init /\ [][NextNested]_vars

\* The callbacks by themselves: lists of up to MaxListed callbacks, one of
\* them raising, with the additions and removals counted, around
\* constructions of entities that are real or overridden by name.
InitCallbacks ==
    /\ fake_factories = [x \in {} |-> NoObj]
    /\ fakeable_created_callbacks = <<>>
    /\ stack = <<>>
    /\ notifications = <<>>
    /\ invocations = <<>>
    /\ constructed = <<>>
    /\ outcome = NoOutcome
    /\ before = NoOutcome
    /\ tally = ZeroTally
    /\ handles = {}
    /\ framework = <<>>
    /\ types = ImportedTypes

NextCallbacks ==
    \/ \E cb \in Callbacks :
          /\ Room(MaxListed)
          /\ tally.added[cb] < MaxAdds
          /\ add_created_callback(cb)
    \/ \E cb \in Callbacks : remove_created_callback(cb)
    \/ clear
    \/ set_fake_object(NameKey("MyCoolClass"), fake_object1)
    \/ \E c \in Entities : Fakeable_call(c, NoArgs)
    \/ notify_fakeable_created_step

SpecCallbacks == InitCallbacks /\ [][NextCallbacks]_vars

\* Entries used as context managers: test code registers through the
\* methods of FAKE_FACTORY, keeps the entries and disposes of them, next to
\* registrations through the public functions.  No callback is registered.
HandleKeys == {ClassKey("MyCoolClass"), NameKey(FAKE_NAME("MyCoolClass"))}

NextHandles ==
    \/ \E k \in HandleKeys : FAKE_FACTORY_set_fake_class(k, "MyUnfakeableClass1")
    \/ \E k \in HandleKeys : FAKE_FACTORY_set_fake_object(k, fake_object1)
    \/ \E k \in HandleKeys : set_fake_object(k, fake_object2)
    \/ \E k \in HandleKeys : unset(k)
    \/ \E h \in handles : call_unregister(h)
    \/ \E h \in handles : with_enter(h)
    \/ \E h \in handles, exc_type \in {"None", "Exception"} : with_exit(h, exc_type)
    \/ \E c \in Entities : Fakeable_call(c, NoArgs)

SpecHandles == Init /\ [][NextHandles]_vars

\* Test cases that use the hooks: fakes and callbacks are registered, the
\* pre-test hook runs over a superclass setUp that returns or raises and
\* that may register a fixture fake, the post-test hook runs over a
\* superclass tearDown that returns or raises, and entities are constructed.
NextCleanup ==
    \/ \E k \in Keys, v \in PlainClasses : set_fake_class(k, v)
    \/ \E k \in Keys, v \in FixedObjects : set_fake_object(k, v)
    \/ \E cb \in Recorders : Room(MaxCallbacks) /\ add_created_callback(cb)
    \/ \E fixture \in Keys \cup {NoKey}, exc \in HookExceptions : setUp(fixture, exc)
    \/ \E exc \in HookExceptions : tearDown("None", exc)
    \/ \E c \in Entities : Fakeable_call(c, NoArgs)
    \/ notify_fakeable_created_step

SpecCleanup == Init /\ [][NextCleanup]_vars

\* The same test cases where clear() may be interrupted inside the
\* post-test hook.
NextInterrupted ==
    \/ \E k \in Keys, v \in FixedObjects : set_fake_object(k, v)
    \/ \E cb \in Recorders : Room(MaxCallbacks) /\ add_created_callback(cb)
    \/ \E ending \in ClearEndings, exc \in HookExceptions : tearDown(ending, exc)
    \/ \E c \in Entities : Fakeable_call(c, NoArgs)
    \/ notify_fakeable_created_step

SpecInterrupted == Init /\ [][NextInterrupted]_vars

\* Test code that defines Fakeable classes and assigns to their
\* __FAKE_NAME__ while fakes and a callback are registered and the classes
\* are constructed.
AssignedNames == {"MyCoolClass", "CustomName", "set()"}

NextTypes ==
    \/ \E name \in NewTypes, dict_ \in ClassBodies : class_statement(name, dict_)
    \/ \E cls \in DOMAIN types, value \in AssignedNames : setattr_FAKE_NAME(cls, value)
    \/ \E k \in Keys : set_fake_object(k, fake_object1)
    \/ \E k \in Keys : unset(k)
    \/ Room(MaxCallbacks) /\ add_created_callback("callback1")
    \/ \E c \in DOMAIN types : Fakeable_call(c, NoArgs)
    \/ notify_fakeable_created_step

SpecTypes == Init /\ [][NextTypes]_vars

(***************************************************************************)
\* Everything that test code does with the registry between two tests, side
\* by side: registrations through the public functions and through the
\* methods, removals, disposals, callbacks, one of them raising, clear() and
\* constructions.
FrameCallbacks == {"callback1", "raiser"}

NextFrame ==
    \/ \E k \in HandleKeys : set_fake_class(k, "MyUnfakeableClass1")
    \/ FAKE_FACTORY_set_fake_object(ClassKey("MyCoolClass"), fake_object1)
    \/ \E k \in Keys : set_fake_object(k, fake_object1)
    \/ \E k \in Keys : unset(k)

    \/ \E h \in handles : call_unregister(h)
    \/ \E h \in handles : with_exit(h, "None")
    \/ \E cb \in FrameCallbacks : Room(MaxCallbacks) /\ add_created_callback(cb)
    \/ \E cb \in FrameCallbacks : remove_created_callback(cb)
    \/ clear
    \/ \E c \in Entities : Fakeable_call(c, NoArgs)
    \/ notify_fakeable_created_step

SpecFrame == Init /\ [][NextFrame]_vars

(***************************************************************************)

\* Callbacks that call the module while a notification is in progress,
\* next to callbacks that only record, around constructions of entities
\* that are real or overridden by name.
ReentrantCallbacks == Recorders \cup Reentrant

NextReentrant ==
    \/ \E cb \in ReentrantCallbacks : Room(MaxCallbacks) /\ add_created_callback(cb)
    \/ \E cb \in ReentrantCallbacks : remove_created_callback(cb)
    \/ clear
    \/ set_fake_object(NameKey("MyCoolClass"), fake_object1)
    \/ \E c \in Entities : Fakeable_call(c, NoArgs)
    \/ notify_fakeable_created_step

SpecReentrant == Init /\ [][NextReentrant]_vars

(***************************************************************************)

\* Callbacks that add callbacks while a notification is in progress, next
\* to a callback that only records.
AddingCallbacks == {"callback1"} \cup Adders

NextAdders ==
    \/ \E cb \in AddingCallbacks : Room(MaxCallbacks) /\ add_created_callback(cb)
    \/ \E cb \in AddingCallbacks : remove_created_callback(cb)
    \/ clear
    \/ \E c \in Entities : Fakeable_call(c, NoArgs)
    \/ notify_fakeable_created_step

SpecAdders == Init /\ [][NextAdders]_vars

(***************************************************************************)

\* Fake classes that are Fakeable themselves, registered by class and by
\* name so that overrides can lead back to an entity, with a callback; the
\* interpreter runs every call in progress to its end.
RecursionKeys ==
    {ClassKey("MyCoolClass"), NameKey(FAKE_NAME("MyCoolClassCustomFakeName"))}


NextRecursion ==
    \/ \E k \in RecursionKeys, v \in Entities \cup {"MyUnfakeableClass1"} :
          set_fake_class(k, v)
    \/ unset(ClassKey("MyCoolClass"))

    \/ Room(MaxCallbacks) /\ add_created_callback("callback1")
    \/ \E c \in Entities : Fakeable_call(c, NoArgs)
    \/ call_fake_class
    \/ notify_fakeable_created_step

LiveRecursion ==
    /\ Init
    /\ [][NextRecursion]_vars
    /\ WF_vars(call_fake_class)
    /\ WF_vars(notify_fakeable_created_step)

(***************************************************************************)

\* Test code that defines a subclass of MyCoolClass, under its own name or
\* with the name of MyCoolClass as its explicit __FAKE_NAME__, and registers
\* fakes by class and by name for both classes.
SharedTypes == {"MyCoolClass", "MyCoolSubclass"}
SharedBodies == {[x \in {} |-> ""], "__FAKE_NAME__" :> "MyCoolClass"}
SharedKeys(ts) ==
    {ClassKey(c) : c \in SharedTypes \cap DOMAIN ts} \cup {NameKey(c) : c \in SharedTypes}

NextShared ==
    \/ \E dict_ \in SharedBodies :
          /\ "MyCoolSubclass" \notin DOMAIN types
          /\ class_statement("MyCoolSubclass", dict_)
    \/ \E k \in SharedKeys(types) : set_fake_class(k, "MyUnfakeableClass1")
    \/ \E k \in SharedKeys(types) : set_fake_object(k, fake_object1)
    \/ \E k \in SharedKeys(types) : unset(k)
    \/ Room(MaxCallbacks) /\ add_created_callback("callback1")
    \/ \E c \in SharedTypes \cap DOMAIN types, args \in ArgLists : Fakeable_call(c, args)
    \/ notify_fakeable_created_step

SpecShared == Init /\ [][NextShared]_vars

(***************************************************************************)

(* Vocabulary of the properties                                            *)
(***************************************************************************)

Registered(k) == k \in DOMAIN fake_factories

\* The two keys under which a fake for the entity can be registered.
IdentityKey(cls) == ClassKey(cls)
DeclaredNameKey(cls) == NameKey(FAKE_NAME(cls))

\* The latest public call was a construction that handed back an object.
Returned ==
    /\ stack = <<>>
    /\ outcome.op = "construct"
    /\ outcome.status = "returned"

\* The object the latest construction produced: held by the activation while
\* the callbacks run, handed to the caller afterwards.
Produced == IF stack # <<>> THEN stack[1].instance ELSE outcome.value

\* obj is a genuine new instance of klass built from args: of that type,
\* holding exactly args, the one object a constructor built in this call,
\* none of the prebuilt objects and not the object the test got just before.
GenuineNew(obj, klass, args) ==
    /\ obj.type = klass
    /\ obj.args = args
    /\ obj.id >= 1
    /\ constructed = <<obj>>
    /\ obj \notin FixedObjects
    /\ before.op = "construct" => obj # before.value

\* The key whose entry the construction of cls uses, by the rule "identity
\* first, then declared name"; NoKey when neither is registered.
KeyInEffect(cls) ==
    IF Registered(IdentityKey(cls)) THEN IdentityKey(cls)
    ELSE IF Registered(DeclaredNameKey(cls)) THEN DeclaredNameKey(cls)
    ELSE NoKey

(***************************************************************************)
(* C1                                                                      *)
(***************************************************************************)

\* C1: whenever the registry holds no override under the entity's identity
\* and none under its declared name, a construction of the entity returns a
\* new genuine instance of the real type, built with exactly the positional
\* and keyword arguments the caller passed.
C1_RealInstanceWhenNoOverride ==
    ( /\ Returned
      /\ ~Registered(IdentityKey(outcome.cls))
      /\ ~Registered(DeclaredNameKey(outcome.cls)) )
    => GenuineNew(outcome.value, outcome.cls, outcome.args)

\* A construction with a positional and a keyword argument returned a real
\* instance while the other entity was overridden and a callback ran.
C1_Witness ==
    /\ Returned
    /\ ~Registered(IdentityKey(outcome.cls))
    /\ ~Registered(DeclaredNameKey(outcome.cls))
    /\ DOMAIN fake_factories # {}
    /\ outcome.args # NoArgs
    /\ outcome.value.type = outcome.cls
    /\ outcome.value.args = outcome.args
    /\ invocations # <<>>

(***************************************************************************)
(* C2                                                                      *)
(***************************************************************************)

\* C2 as stated: while a fixed object is registered under the entity's
\* identity or under its declared name, every construction of the entity
\* returns that object and runs no constructor.
C2_AsStated ==
    \A k \in Keys :
        ( /\ Returned
          /\ k \in {IdentityKey(outcome.cls), DeclaredNameKey(outcome.cls)}
          /\ Registered(k)
          /\ fake_factories[k].kind = "object" )
        => /\ outcome.value = fake_factories[k].obj
           /\ constructed = <<>>

\* C2, amended: while a fixed object is registered under the key in effect
\* for the entity (its identity, or its declared name when nothing is
\* registered under its identity), every construction of the entity returns
\* that very object, the same one as the construction just before it and
\* whatever the arguments, and no constructor runs.
C2_FixedObjectInEffect ==
    ( /\ Returned
      /\ KeyInEffect(outcome.cls) # NoKey
      /\ fake_factories[KeyInEffect(outcome.cls)].kind = "object" )
    => /\ outcome.value = fake_factories[KeyInEffect(outcome.cls)].obj
       /\ constructed = <<>>
       /\ ( /\ before.op = "construct"
            /\ before.status = "returned"
            /\ before.cls = outcome.cls )
          => before.value = outcome.value

\* Two constructions in a row, with different arguments, of an entity whose
\* fixed object is registered by name: both returned the registered object.
C2_Witness ==
    /\ Returned
    /\ KeyInEffect(outcome.cls) = DeclaredNameKey(outcome.cls)
    /\ fake_factories[KeyInEffect(outcome.cls)].kind = "object"
    /\ before.op = "construct"
    /\ before.status = "returned"
    /\ before.cls = outcome.cls
    /\ before.args # outcome.args
    /\ before.value = outcome.value
    /\ outcome.value \in FixedObjects

(***************************************************************************)
(* C3                                                                      *)
(***************************************************************************)

ProducedBy(e, obj, args) ==
    IF e.kind = "object"
    THEN obj = e.obj /\ constructed = <<>>
    ELSE GenuineNew(obj, e.cls, args)

\* C4: when overrides are registered both under the entity's identity and
\* under its declared name, the construction uses the one registered under
\* the identity, whatever the two variants are and whichever came first.
C4_IdentityBeforeName ==
    ( /\ Returned
      /\ Registered(IdentityKey(outcome.cls))
      /\ Registered(DeclaredNameKey(outcome.cls)) )
    => ProducedBy(fake_factories[IdentityKey(outcome.cls)], outcome.value, outcome.args)

\* The name was registered last, right before the construction, with the
\* other variant than the identity: the identity's override was used.
C4_Witness ==
    /\ Returned
    /\ Registered(IdentityKey(outcome.cls))
    /\ Registered(DeclaredNameKey(outcome.cls))
    /\ before.op \in {"set_fake_object", "set_fake_class"}
    /\ before.key = DeclaredNameKey(outcome.cls)
    /\ fake_factories[IdentityKey(outcome.cls)].kind
          # fake_factories[DeclaredNameKey(outcome.cls)].kind
    /\ ProducedBy(fake_factories[IdentityKey(outcome.cls)], outcome.value, outcome.args)

(***************************************************************************)
(* C5                                                                      *)
(***************************************************************************)

\* C5: set_fake_object or set_fake_class on a key, whether or not the key
\* already has an entry of either variant, returns without error and leaves
\* under that key exactly the entry just registered: the key has one
\* override, the most recently registered one.
C5_RegistrationReplaces ==
    /\ outcome.op = "set_fake_object" =>
          /\ outcome.status = "returned"
          /\ Registered(outcome.key)
          /\ fake_factories[outcome.key] = FakeObjectEntry(outcome.key, outcome.value)
    /\ outcome.op = "set_fake_class" =>
          /\ outcome.status = "returned"
          /\ Registered(outcome.key)
          /\ fake_factories[outcome.key] = FakeClassEntry(outcome.key, outcome.cls)

\* A fixed object was registered under a key that already had an entry, the
\* registry holding another key as well: the new object is the entry.
C5_Witness ==
    /\ outcome.op = "set_fake_object"
    /\ outcome.had_entry
    /\ Cardinality(DOMAIN fake_factories) = 2
    /\ fake_factories[outcome.key].kind = "object"
    /\ fake_factories[outcome.key].obj = outcome.value

(***************************************************************************)
(* C6                                                                      *)
(***************************************************************************)

\* C6 as stated: after unset(K) removed the entry of K, K has no entry and
\* the next construction of the entity K designates returns a genuine new
\* instance of the real type.
C6_AsStated ==
    /\ (outcome.op = "unset" /\ outcome.had_entry) => ~Registered(outcome.key)
    /\ ( /\ Returned
         /\ before.op = "unset"
         /\ before.key \in {IdentityKey(outcome.cls), DeclaredNameKey(outcome.cls)} )
       => /\ ~Registered(before.key)
          /\ GenuineNew(outcome.value, outcome.cls, outcome.args)

\* C6, amended: after unset(K) removed the entry of K, K has no entry, and
\* the next construction of the entity K designates returns a genuine new
\* instance of the real type provided no override is registered under the
\* entity's other key.
C6_UnsetReverts ==
    /\ (outcome.op = "unset" /\ outcome.had_entry) => ~Registered(outcome.key)
    /\ ( /\ Returned
         /\ before.op = "unset"
         /\ before.key \in {IdentityKey(outcome.cls), DeclaredNameKey(outcome.cls)} )
       => /\ ~Registered(before.key)
          /\ KeyInEffect(outcome.cls) = NoKey
                => GenuineNew(outcome.value, outcome.cls, outcome.args)

\* The name of an entity was unset, the entry it had removed, and the
\* construction that followed, with arguments, returned a real instance.
C6_Witness ==
    /\ Returned
    /\ before.op = "unset"
    /\ before.had_entry
    /\ before.key = DeclaredNameKey(outcome.cls)
    /\ KeyInEffect(outcome.cls) = NoKey
    /\ outcome.args # NoArgs
    /\ outcome.value.type = outcome.cls

(***************************************************************************)
(* C7                                                                      *)
(***************************************************************************)

\* C7: fakeable.unset(key) returns true exactly when an entry for key was
\* registered before the call, and then the entry is removed; it returns
\* false when none was registered; it never raises.
C7_UnsetReturnsWhetherRemoved ==
    outcome.op = "unset" =>
        /\ outcome.status = "returned"
        /\ ~Registered(outcome.key)
        /\ outcome.ret = IF outcome.had_entry THEN "True" ELSE "False"

(***************************************************************************)
(* C8                                                                      *)
(***************************************************************************)

\* C8: after clear() the registry has no entry and the callback list is
\* empty, and the construction that follows clear() returns a genuine new
\* instance of the real type without invoking any callback.
C8_ClearEmptiesEverything ==
    /\ outcome.op = "clear" =>
          /\ DOMAIN fake_factories = {}
          /\ fakeable_created_callbacks = <<>>
    /\ (outcome.op = "construct" /\ before.op = "clear") =>
          /\ Returned
          /\ invocations = <<>>
          /\ GenuineNew(outcome.value, outcome.cls, outcome.args)

\* clear() found overrides and callbacks registered; the construction right
\* after it returned a real instance and no callback ran.
C8_Witness ==
    /\ Returned
    /\ before.op = "clear"
    /\ before.had_entry
    /\ before.had_callbacks
    /\ invocations = <<>>
    /\ outcome.value.type = outcome.cls

(***************************************************************************)
(* C9                                                                      *)
(***************************************************************************)

\* C9: in every construction, whichever branch produced the instance,
\* notify_fakeable_created is called exactly once, with the instance that
\* was produced, while the construction has not yet returned; when the
\* construction returns every registered callback has been invoked.
C9_NotifiedExactlyOnce ==
    outcome.op = "construct" =>
        /\ Len(notifications) = 1
        /\ notifications[1].obj = Produced
        /\ outcome.status = "running" <=> stack # <<>>
        /\ Returned => Len(invocations) = Len(fakeable_created_callbacks)

\* A construction resolved by the name-keyed override is in the middle of
\* its notification: one callback has run, one has not, nothing is returned.
C9_Witness ==
    /\ outcome.op = "construct"
    /\ outcome.status = "running"
    /\ stack # <<>>
    /\ stack[1].branch = "name"
    /\ Len(notifications) = 1
    /\ Len(invocations) = 1
    /\ Len(fakeable_created_callbacks) = 2

(***************************************************************************)
(* C10                                                                     *)
(***************************************************************************)

\* C10: every callback invocation of a construction receives the entity's
\* declared name, the very instance the construction hands to its caller
\* and the entity itself as obj_type (never the substitute's type), so all
\* callbacks of one construction receive the same triple.
C10_CallbackArguments ==
    outcome.op = "construct" =>
        \A i \in 1..Len(invocations) :
            /\ invocations[i].name = FAKE_NAME(outcome.cls)
            /\ invocations[i].obj = Produced
            /\ invocations[i].obj_type = outcome.cls

\* Two callbacks were invoked for a construction that the identity-keyed
\* factory of an entity with an explicit name resolved, and it returned.
C10_Witness ==
    /\ Returned
    /\ FAKE_NAME(outcome.cls) # outcome.cls
    /\ Registered(IdentityKey(outcome.cls))
    /\ fake_factories[IdentityKey(outcome.cls)].kind = "class"
    /\ outcome.value.type \in PlainClasses
    /\ Len(invocations) = 2
    /\ invocations[1].cb # invocations[2].cb
    /\ invocations[1].obj = outcome.value
    /\ invocations[2].obj_type = outcome.cls

(***************************************************************************)
(* C11                                                                     *)
(***************************************************************************)

\* list without its element at position i.
Without(list, i) == SubSeq(list, 1, i - 1) \o SubSeq(list, i + 1, Len(list))

\* C11: the callback list is in insertion order (an addition puts the
\* callback behind all those already registered), every construction invokes
\* the registered callbacks from the first to the last of the list, and a
\* removal takes one callback out and leaves the others in the order they had.
C11_InvokedInInsertionOrder ==
    [][ /\ outcome'.op = "add_created_callback" =>
              /\ Len(fakeable_created_callbacks') = Len(fakeable_created_callbacks) + 1
              /\ SubSeq(fakeable_created_callbacks', 1, Len(fakeable_created_callbacks))
                    = fakeable_created_callbacks
              /\ fakeable_created_callbacks'[Len(fakeable_created_callbacks')] = outcome'.cls
        /\ (outcome'.op = "remove_created_callback" /\ outcome'.ret = "True") =>
              \E i \in 1..Len(fakeable_created_callbacks) :
                  /\ fakeable_created_callbacks[i] = outcome'.cls
                  /\ fakeable_created_callbacks' = Without(fakeable_created_callbacks, i)
        /\ outcome'.op = "construct" =>
              /\ Len(invocations') <= Len(fakeable_created_callbacks')
              /\ \A i \in 1..Len(invocations') :
                     invocations'[i].cb = fakeable_created_callbacks'[i]
              /\ outcome'.status = "returned" =>
                     Len(invocations') = Len(fakeable_created_callbacks')
      ]_vars

\* Three different callbacks were registered, the raising one was removed,
\* and the construction that followed invoked the two others, callback1
\* before callback2, as they are listed.
C11_Witness ==
    /\ Returned
    /\ before.op = "remove_created_callback"
    /\ before.cls = "raiser"
    /\ before.ret = "True"
    /\ \A cb \in Callbacks : tally.added[cb] = 1
    /\ tally.removed["raiser"] = 1
    /\ fakeable_created_callbacks = <<"callback1", "callback2">>
    /\ Len(invocations) = 2
    /\ invocations[1].cb = "callback1"
    /\ invocations[2].cb = "callback2"

(***************************************************************************)
(* C12                                                                     *)
(***************************************************************************)

\* How often cb is in the callback list, and how often the latest
\* construction invoked it.
Listed(cb) ==
    Cardinality({i \in 1..Len(fakeable_created_callbacks) :
                    fakeable_created_callbacks[i] = cb})
Invoked(cb) ==
    Cardinality({i \in 1..Len(invocations) : invocations[i].cb = cb})

\* The latest public call was a construction and it is over: it returned, or
\* an exception left it.
Over == stack = <<>> /\ outcome.op = "construct"

\* C12: every add_created_callback call returns and appends, also when the
\* callback is registered already, so a callback added n times and removed
\* with success m times since the last clear() is registered n - m times,
\* and a construction that runs its notification to the end invokes it
\* exactly n - m times: twice while it is registered twice.
C12_InvokedOncePerRegistration ==
    /\ outcome.op = "add_created_callback" => outcome.status = "returned"
    /\ \A cb \in Callbacks : Listed(cb) = tally.added[cb] - tally.removed[cb]
    /\ Returned => \A cb \in Callbacks : Invoked(cb) = tally.added[cb] - tally.removed[cb]

\* callback1 was added twice and then removed once, callback2 is registered
\* as well: the construction that followed invoked callback1 once.
C12_Witness ==
    /\ Returned
    /\ before.op = "remove_created_callback"
    /\ before.cls = "callback1"
    /\ before.ret = "True"
    /\ tally.added["callback1"] = 2
    /\ tally.removed["callback1"] = 1
    /\ tally.added["callback2"] = 1
    /\ Invoked("callback1") = 1
    /\ Invoked("callback2") = 1

(***************************************************************************)
(* C13                                                                     *)
(***************************************************************************)

\* The positions of x in list.
Positions(list, x) == {i \in 1..Len(list) : list[i] = x}

\* C13: remove_created_callback(callback) never raises; when the callback is
\* in the list it takes out its first occurrence and nothing else and
\* returns True; when it is not, it leaves the list and the registry as they
\* are and returns False; the construction after a removal invokes every
\* callback that is still registered, once per registration.
C13_RemovesFirstOccurrence ==
    [][ /\ outcome'.op = "remove_created_callback" =>
              /\ outcome'.status = "returned"
              /\ fake_factories' = fake_factories
              /\ IF Positions(fakeable_created_callbacks, outcome'.cls) # {}
                 THEN /\ outcome'.ret = "True"
                      /\ \E i \in Positions(fakeable_created_callbacks, outcome'.cls) :
                            /\ \A j \in Positions(fakeable_created_callbacks, outcome'.cls) :
                                  i <= j
                            /\ fakeable_created_callbacks'
                                  = Without(fakeable_created_callbacks, i)
                 ELSE /\ outcome'.ret = "False"
                      /\ fakeable_created_callbacks' = fakeable_created_callbacks
        /\ ( /\ outcome'.op = "construct"
             /\ outcome'.status = "returned"
             /\ before'.op = "remove_created_callback" ) =>
              \A cb \in Callbacks : Invoked(cb)' = Listed(cb)'
      ]_vars

\* callback1 had been added twice and callback2 once; the first callback1 was
\* removed, and the construction that followed invoked callback2 and then the
\* callback1 that is left.
C13_Witness ==
    /\ Returned
    /\ before.op = "remove_created_callback"
    /\ before.cls = "callback1"
    /\ before.ret = "True"
    /\ tally.added["callback1"] = 2
    /\ tally.removed["callback1"] = 1
    /\ tally.added["callback2"] = 1
    /\ tally.removed["callback2"] = 0
    /\ tally.added["raiser"] = 0
    /\ fakeable_created_callbacks = <<"callback2", "callback1">>
    /\ Len(invocations) = 2
    /\ invocations[1].cb = "callback2"
    /\ invocations[2].cb = "callback1"

(***************************************************************************)
(* C14                                                                     *)
(***************************************************************************)

\* The callback of this invocation raised.
Raising(inv) == CallbackBehaviour(inv.cb) = "raise"

\* C14: when a callback raises in the notification of a construction, that
\* notification invokes no further callback, the construction is left
\* without returning the instance it had produced, and when the construction
\* was called by test code the caller gets the callback's exception, as
\* raised, and no instance.
C14_RaisingCallbackEndsConstruction ==
    [][ /\ \A i, j \in 1..Len(invocations') :
              (i < j /\ Raising(invocations'[i]))
              => invocations'[j].call # invocations'[i].call
        /\ ( /\ Len(invocations') = Len(invocations) + 1
             /\ Raising(invocations'[Len(invocations')]) ) =>
              /\ Len(stack') < Len(stack)
              /\ invocations'[Len(invocations')].obj = stack[Len(stack)].instance
              /\ Len(stack) = 1 =>
                    /\ stack' = <<>>
                    /\ outcome'.op = "construct"
                    /\ outcome'.status = "raised"
                    /\ outcome'.ret = CallbackException(invocations'[Len(invocations')].cb)
                    /\ outcome'.value = NoObj
      ]_vars

\* The raising callback is registered before callback1: the real instance
\* was built, the raising callback was invoked with it, callback1 was not
\* invoked and the caller got the exception.
C14_Witness ==
    /\ Over
    /\ outcome.status = "raised"
    /\ outcome.ret = "Exception"
    /\ outcome.value = NoObj
    /\ fakeable_created_callbacks = <<"raiser", "callback1">>
    /\ Len(constructed) = 1
    /\ Len(invocations) = 1
    /\ invocations[1].cb = "raiser"
    /\ invocations[1].obj = constructed[1]

(***************************************************************************)
(* C15                                                                     *)
(***************************************************************************)

\* C15: fakeable.set_fake_object(key, value) and fakeable.set_fake_class(key,
\* value) each return a handle, an object to dispose of, for the entry they
\* installed: anything but None.
C15_RegistrationReturnsHandle ==
    outcome.op \in {"set_fake_object", "set_fake_class"} =>
        /\ outcome.status = "returned"
        /\ outcome.ret # "None"

(***************************************************************************)
(* C16                                                                     *)
(***************************************************************************)

\* The two ways of disposing of an entry.
Disposal == {"unregister", "__exit__"}

\* The object obj is the substitute of entry e, or an instance of it.
SubstituteOf(e, obj) ==
    IF e.kind = "object" THEN obj = e.obj ELSE obj.type = e.cls

\* The construction that follows the disposal of an entry of one of the
\* entity's keys: the key has no entry, and the construction is resolved by
\* the entity's other key or by the real constructor; it does not yield the
\* substitute of the disposed entry unless the other key provides the same.
ResolvedWithoutDisposed ==
    ( /\ outcome.op = "construct"
      /\ before.op \in Disposal
      /\ before.key \in {IdentityKey(outcome.cls), DeclaredNameKey(outcome.cls)} ) =>
        /\ Returned
        /\ ~Registered(before.key)
        /\ IF KeyInEffect(outcome.cls) = NoKey
           THEN /\ GenuineNew(outcome.value, outcome.cls, outcome.args)
                /\ ~SubstituteOf(before.handle.entry, outcome.value)
           ELSE /\ ProducedBy(fake_factories[KeyInEffect(outcome.cls)],
                              outcome.value, outcome.args)
                /\ SubstituteOf(before.handle.entry, outcome.value)
                      => SubstituteOf(fake_factories[KeyInEffect(outcome.cls)],
                                      outcome.value)

\* C16: h.unregister() and the end of a with block on h, for an entry h of
\* either variant, do what unset(h.name) does: right afterwards the registry
\* has no entry under h.name and is otherwise as it was, and the next
\* construction of the entity of that key no longer uses the substitute of h.
C16_DisposalUnsetsKey ==
    /\ [][ outcome'.op \in Disposal =>
              /\ outcome'.key = outcome'.handle.entry.name
              /\ outcome'.key \notin DOMAIN fake_factories'
              /\ fake_factories' = DictDel(fake_factories, outcome'.key)
              /\ outcome'.op = "unregister" => outcome'.status = "returned"
         ]_vars
    /\ []ResolvedWithoutDisposed

\* A with block on the entry of a fixed object registered for the class
\* ended, the entry being registered until then, and the construction of
\* the class right after that returned a real instance.
C16_Witness ==
    /\ Returned
    /\ before.op = "__exit__"
    /\ before.status = "returned"
    /\ before.had_entry
    /\ before.handle.entry = FakeObjectEntry(IdentityKey(outcome.cls), fake_object1)
    /\ before.handle.prior = <<>>
    /\ outcome.value.type = outcome.cls
    /\ constructed = <<outcome.value>>

(***************************************************************************)
(* C17                                                                     *)
(***************************************************************************)

\* C17 as stated: after the disposal of an entry the registry has under the
\* entry's key what it had right before the entry was registered, also when
\* that was an earlier override.
C17_AsStated ==
    outcome.op \in Disposal => Content(outcome.key) = outcome.handle.prior

\* C17, amended: after the disposal of an entry the registry has nothing
\* under the entry's key; this is what the key had right before the entry
\* was registered exactly when the key had no override then: an override
\* that the registration replaced is not put back.
C17_DisposalLeavesKeyEmpty ==
    outcome.op \in Disposal =>
        /\ Content(outcome.key) = <<>>
        /\ Content(outcome.key) = outcome.handle.prior <=> outcome.handle.prior = <<>>

\* The class had a fixed object registered through the public function; an
\* entry for a fake class was registered over it and then unregistered while
\* it was the entry of the key: the key is left without an override.
C17_Witness ==
    /\ outcome.op = "unregister"
    /\ outcome.had_entry
    /\ outcome.handle.entry = FakeClassEntry(ClassKey("MyCoolClass"), "MyUnfakeableClass1")
    /\ outcome.handle.prior = <<FakeObjectEntry(ClassKey("MyCoolClass"), fake_object2)>>
    /\ handles = {}
    /\ Content(ClassKey("MyCoolClass")) = <<>>

(***************************************************************************)
(* C18                                                                     *)
(***************************************************************************)

\* The entry hands out None: the fixed object None, or the factory that
\* returns None.
GivesNone(e) ==
    IF e.kind = "object" THEN e.obj = None ELSE e.cls = NoneFactory

\* A None that an override produces is the result of the construction: with
\* such an override under the key in effect, the construction that returns
\* returns None, has built no instance, and has notified with None.
NoneIsAResult ==
    ( /\ Returned
      /\ KeyInEffect(outcome.cls) # NoKey
      /\ GivesNone(fake_factories[KeyInEffect(outcome.cls)]) )
    => /\ outcome.value = None
       /\ constructed = <<>>
       /\ Len(notifications) = 1
       /\ notifications[1].obj = None
       /\ \A i \in 1..Len(invocations) : invocations[i].obj = None

\* Only an absent key counts as not found: an activation that has gone on
\* to the lookup by name has no entry under the class, and one that has
\* gone on to the real construction has none under the name either.
OnlyAbsentKeyIsAMiss ==
    \A i \in 1..Len(stack) :
        /\ stack[i].branch = "name" => ~Registered(IdentityKey(stack[i].cls))
        /\ stack[i].branch = "real" =>
              /\ ~Registered(IdentityKey(stack[i].cls))
              /\ ~Registered(DeclaredNameKey(stack[i].cls))

\* C18: a lookup that finds an entry producing None is a hit, not a miss:
\* the construction returns None, without going on to the lookup by name or
\* to the real construction, and notifies; only an absent key counts as not
\* found.
C18_NoneIsNotAMiss == NoneIsAResult /\ OnlyAbsentKeyIsAMiss

(***************************************************************************)
(* C19                                                                     *)
(***************************************************************************)

\* C19: FakeNotFound stays inside Fakeable.__call__: no construction ends
\* with it at its caller; a construction that finds nothing under the class
\* uses the entry under the name, and one that finds nothing under either
\* builds a real instance.
C19_NotFoundIsInternal ==
    outcome.op = "construct" =>
        /\ ~(outcome.status = "raised" /\ outcome.ret = "FakeNotFound")
        /\ (Returned /\ ~Registered(IdentityKey(outcome.cls))) =>
              IF Registered(DeclaredNameKey(outcome.cls))
              THEN ProducedBy(fake_factories[DeclaredNameKey(outcome.cls)],
                              outcome.value, outcome.args)
              ELSE GenuineNew(outcome.value, outcome.cls, outcome.args)

\* Nothing is registered for the entity, under its class or under its
\* explicit name, while the other entity has an override: both lookups
\* missed, the construction returned a real instance and a callback ran.
C19_Witness ==
    /\ Returned
    /\ FAKE_NAME(outcome.cls) # outcome.cls
    /\ ~Registered(IdentityKey(outcome.cls))
    /\ ~Registered(DeclaredNameKey(outcome.cls))
    /\ Cardinality(DOMAIN fake_factories) = 2
    /\ outcome.value.type = outcome.cls
    /\ outcome.status = "returned"
    /\ Len(invocations) = 1

(***************************************************************************)
(* C20: the pre-test hook runs the setUp of the superclass first and then  *)
(* clears the registry.  When the hook returns, the superclass's setUp has *)
(* been invoked, and no fake and no callback is registered any more: not   *)
(* those registered before the hook and not a fake that the superclass's   *)
(* setUp registered.  The construction of any entity that follows yields a *)
(* real instance of the entity and no callback is invoked for it.          *)
(***************************************************************************)
HookReturned(o) == o.op = "setUp" /\ o.status = "returned"

ConstructionAfterHookIsReal ==
    (Returned /\ HookReturned(before)) =>
        /\ GenuineNew(outcome.value, outcome.cls, outcome.args)
        /\ invocations = <<>>

C20_SetUpThenClear ==
    /\ [][ HookReturned(outcome') =>
              /\ framework' = <<Called("super.setUp", "None"), Called("clear", "None")>>
              /\ DOMAIN fake_factories' = {}
              /\ fakeable_created_callbacks' = <<>> ]_vars
    /\ []ConstructionAfterHookIsReal

C20_Witness ==
    /\ Returned
    /\ HookReturned(before)
    /\ before.had_entry
    /\ before.had_callbacks
    /\ before.key = DeclaredNameKey(outcome.cls)
    /\ framework = <<Called("super.setUp", "None"), Called("clear", "None")>>
    /\ outcome.value.type = outcome.cls

(***************************************************************************)
(* C21: when the superclass's setUp raises inside the pre-test hook, the   *)
(* hook ends with that exception and clear() is not called: every entry    *)
(* that was registered before the hook is still registered, unchanged      *)
(* (but for the key under which the superclass's setUp itself registered a *)
(* fixture), the callback list is unchanged, and a construction that       *)
(* follows still finds a registry that is not empty.                       *)
(***************************************************************************)
HookRaised(o) == o.op = "setUp" /\ o.status = "raised"

RegistrySurvivesRaisedHook ==
    (outcome.op = "construct" /\ HookRaised(before) /\ before.had_entry) =>
        DOMAIN fake_factories # {}

C21_RaisedSetUpLeavesRegistry ==
    /\ [][ HookRaised(outcome') =>
              /\ outcome'.ret \in HookExceptions \ {"None"}
              /\ framework' = <<Called("super.setUp", outcome'.ret)>>
              /\ fakeable_created_callbacks' = fakeable_created_callbacks
              /\ \A k \in DOMAIN fake_factories \ {outcome'.key} :
                    /\ k \in DOMAIN fake_factories'
                    /\ fake_factories'[k] = fake_factories[k] ]_vars
    /\ []RegistrySurvivesRaisedHook

\* The hook raised over a registered fake object, without a fixture, and the
\* construction that followed returned the fake object.
C21_Witness ==
    /\ Returned
    /\ HookRaised(before)
    /\ before.had_entry
    /\ before.key = NoKey
    /\ before.ret = "ValueError"
    /\ outcome.value \in FixedObjects
    /\ framework = <<Called("super.setUp", "ValueError")>>

(***************************************************************************)
(* C22: the post-test hook calls clear() and then the tearDown of the      *)
(* superclass, whatever happens: after the hook no fake and no callback is *)
(* registered, whether the superclass's tearDown returned or raised, and   *)
(* the hook raises exactly when the superclass's tearDown raised, with the *)
(* same exception.  A construction that follows the hook yields a real     *)
(* instance.                                                               *)
(***************************************************************************)
ConstructionAfterTearDownIsReal ==
    (Returned /\ before.op = "tearDown") =>
        /\ GenuineNew(outcome.value, outcome.cls, outcome.args)
        /\ invocations = <<>>

C22_ClearThenTearDown ==
    /\ [][ outcome'.op = "tearDown" =>
              /\ Len(framework') = 2
              /\ framework'[1] = Called("clear", "None")
              /\ framework'[2].call = "super.tearDown"
              /\ DOMAIN fake_factories' = {}
              /\ fakeable_created_callbacks' = <<>>
              /\ outcome'.ret = framework'[2].exc
              /\ (outcome'.status = "raised") = (framework'[2].exc # "None") ]_vars
    /\ []ConstructionAfterTearDownIsReal

\* The superclass's tearDown raised in a hook that found a fake and a
\* callback registered, and the construction after it was real.
C22_Witness ==
    /\ Returned
    /\ before.op = "tearDown"
    /\ before.status = "raised"
    /\ before.ret = "ValueError"
    /\ before.had_entry
    /\ before.had_callbacks
    /\ outcome.value.type = outcome.cls

(***************************************************************************)
(* C23                                                                     *)
(***************************************************************************)

\* The hook's clear() failed.
ClearFailed(log) == log # <<>> /\ log[1].call = "clear" /\ log[1].exc # "None"

\* C23 as stated: if clear() fails inside the post-test hook, the tearDown
\* of the superclass still runs and the failure of clear() is the exception
\* that the hook raises.
C23_AsStated ==
    [][ (outcome'.op = "tearDown" /\ ClearFailed(framework')) =>
           /\ Len(framework') = 2
           /\ framework'[2].call = "super.tearDown"
           /\ outcome'.status = "raised"
           /\ outcome'.ret = framework'[1].exc ]_vars

\* C23, amended: if clear() fails inside the post-test hook, the tearDown of
\* the superclass still runs and the hook raises: the failure of clear()
\* when the superclass's tearDown returns, the exception of the superclass's
\* tearDown when it raises too.
C23_TearDownRunsAfterFailedClear ==
    [][ (outcome'.op = "tearDown" /\ ClearFailed(framework')) =>
           /\ Len(framework') = 2
           /\ framework'[2].call = "super.tearDown"
           /\ outcome'.status = "raised"
           /\ outcome'.ret = IF framework'[2].exc # "None" THEN framework'[2].exc
                             ELSE framework'[1].exc ]_vars

\* clear() was interrupted before it removed anything, the superclass's
\* tearDown returned, and the hook raised the interrupt.
C23_Witness ==
    /\ outcome.op = "tearDown"
    /\ ClearFailed(framework)
    /\ framework[2] = Called("super.tearDown", "None")
    /\ outcome.ret = ClearFailure
    /\ outcome.had_entry
    /\ DOMAIN fake_factories # {}

(***************************************************************************)
(* C24: a class statement whose explicit __FAKE_NAME__ is not hashable     *)
(* raises at once: no class is defined, and the registry and the callback  *)
(* list are as before.  Every other class statement defines the class, and *)
(* a class without an explicit name gets its own class name: it never      *)
(* fails.                                                                  *)
(***************************************************************************)
C24_UnhashableNameFailsDefinition ==
    [][ outcome'.op = "class" =>
           /\ fake_factories' = fake_factories
           /\ fakeable_created_callbacks' = fakeable_created_callbacks
           /\ IF outcome'.key # NoKey /\ ~Hashable(outcome'.key[2])
              THEN /\ outcome'.status = "raised"
                   /\ outcome'.ret = "TypeError"
                   /\ types' = types
              ELSE /\ outcome'.status = "returned"
                   /\ outcome'.cls \in DOMAIN types'
                   /\ types'[outcome'.cls].attrs["__FAKE_NAME__"] =
                         IF outcome'.key = NoKey THEN outcome'.cls ELSE outcome'.key[2] ]_vars

\* A class statement with an unhashable name raised while a fake and a
\* callback were registered, and the class does not exist.
C24_Witness ==
    /\ outcome.op = "class"
    /\ outcome.status = "raised"
    /\ outcome.cls \notin DOMAIN types
    /\ DOMAIN fake_factories # {}
    /\ fakeable_created_callbacks # <<>>

(***************************************************************************)
(* C25                                                                     *)
(***************************************************************************)

\* The value of the class's name attribute now, and the name the class
\* declared when it was defined.
CurrentName(cls) == types[cls].attrs["__FAKE_NAME__"]
NameAtDefinition(cls) == types[cls].declared

\* The construction that returned looked the name up in the registry (when
\* nothing is registered under the class) and notified with it.
ConstructionUsed(name) ==
    /\ \A i \in 1..Len(invocations) : invocations[i].name = name
    /\ ~Registered(IdentityKey(outcome.cls)) =>
          IF Registered(NameKey(name))
          THEN ProducedBy(fake_factories[NameKey(name)], outcome.value, outcome.args)
          ELSE GenuineNew(outcome.value, outcome.cls, outcome.args)

\* C25 as stated: the declared name of an entity is fixed when the type is
\* defined and never changes: every later construction uses that name for
\* the lookup by name and for the notification.
C25_AsStated ==
    /\ \A cls \in DOMAIN types : CurrentName(cls) = NameAtDefinition(cls)
    /\ Returned => ConstructionUsed(NameAtDefinition(outcome.cls))

\* C25, amended: the declared name of an entity is set when the type is
\* defined, and no function of the module changes it afterwards; it is an
\* attribute of the class that test code can assign, and every construction
\* uses the value the attribute has when the construction starts, for the
\* lookup by name and for the notification.  A construction fails with
\* TypeError only when that value is not hashable and nothing is registered
\* under the class.
FailsOnlyOnUnhashableName ==
    (outcome.op = "construct" /\ outcome.status = "raised") =>
        /\ outcome.ret = "TypeError"
        /\ ~Hashable(CurrentName(outcome.cls))
        /\ ~Registered(IdentityKey(outcome.cls))

C25_NameIsTheAttribute ==
    /\ [][ outcome'.op \notin {"class", "setattr"} => types' = types ]_vars
    /\ [](Returned => ConstructionUsed(CurrentName(outcome.cls)))
    /\ []FailsOnlyOnUnhashableName

\* A class whose name attribute was assigned after its definition was
\* constructed: the fake registered under the new name was returned and
\* the callback was told the new name.
C25_Witness ==
    /\ Returned
    /\ CurrentName(outcome.cls) # NameAtDefinition(outcome.cls)
    /\ ~Registered(IdentityKey(outcome.cls))
    /\ Registered(NameKey(CurrentName(outcome.cls)))
    /\ outcome.value = fake_object1
    /\ Len(invocations) = 1
    /\ invocations[1].name = CurrentName(outcome.cls)

(***************************************************************************)
(* C28                                                                     *)
(***************************************************************************)

\* The entry disposed of was stale: its key had been registered again, with
\* another override, which was the one in the registry.
StaleDisposal ==
    /\ outcome.op \in Disposal
    /\ outcome.found # <<>>
    /\ outcome.found # <<outcome.handle.entry>>

\* C28 as stated: the disposal of an entry removes only the override that
\* the entry installed; the disposal of a stale entry leaves the newer
\* override of its key in place.
C28_AsStated ==
    /\ StaleDisposal => Content(outcome.key) = outcome.found
    /\ (outcome.op \in Disposal /\ ~StaleDisposal) => Content(outcome.key) = <<>>

\* C28, amended: the disposal of an entry unsets the entry's key, whatever
\* override is registered under it; the disposal of a stale entry removes
\* the newer override of its key, and the entries of the other keys stay.
C28_StaleDisposalRemovesNewer ==
    [][ StaleDisposal' =>
           /\ outcome'.found = <<fake_factories[outcome'.key]>>
           /\ fake_factories' = DictDel(fake_factories, outcome'.key) ]_vars


\* An entry for a fake class was registered under the class, a fixed object
\* was then registered under the same key through the public function, and
\* the with block of the entry ended: the fixed object is gone.
C28_Witness ==
    /\ StaleDisposal
    /\ outcome.op = "__exit__"
    /\ outcome.handle.entry = FakeClassEntry(ClassKey("MyCoolClass"), "MyUnfakeableClass1")
    /\ outcome.found = <<FakeObjectEntry(ClassKey("MyCoolClass"), fake_object2)>>
    /\ Content(ClassKey("MyCoolClass")) = <<>>
    /\ DOMAIN fake_factories # {}

(***************************************************************************)
(* C26: the entry under a key K changes only through a registration under  *)
(* K, unset(K), the disposal of an entry of K, or clear().  Constructions   *)
(* and their notifications, additions and removals of callbacks, and       *)
(* registrations, removals and disposals under any other key, the other    *)
(* key of the same entity included, leave it as it is: an override that    *)
(* nobody disposes of persists.                                            *)
(***************************************************************************)
ChangesOfKey == {"set_fake_class", "set_fake_object", "unset", "unregister", "__exit__"}

C26_EntryChangesOnlyByItsKey ==
    [][ \A k \in Keys :
           Content(k)' # Content(k) =>
              \/ outcome'.op = "clear"
              \/ outcome'.op \in ChangesOfKey /\ outcome'.key = k ]_vars

\* The fake registered under the name of an entity is the one a construction
\* returned right after the fake under the entity's identity was unset, with
\* a callback registered.
C26_Witness ==
    /\ Returned
    /\ before.op = "unset"
    /\ before.had_entry
    /\ before.key = IdentityKey(outcome.cls)
    /\ Registered(DeclaredNameKey(outcome.cls))
    /\ outcome.value = fake_object1
    /\ invocations # <<>>

(***************************************************************************)
(* C27: the callback list changes only through add_created_callback,       *)
(* remove_created_callback and clear().  Registrations, removals, disposals *)
(* leave it alone, and a construction leaves both the list and the         *)
(* registry alone, also when a callback ends it with an exception: the     *)
(* callback that raised is still registered, and the next construction     *)
(* invokes it again and ends the same way.                                 *)
(***************************************************************************)
ChangesOfCallbacks == {"add_created_callback", "remove_created_callback", "clear"}

RaiserStaysRegistered ==
    /\ (Over /\ outcome.status = "raised") =>
          /\ invocations # <<>>
          /\ \E i \in 1..Len(fakeable_created_callbacks) :
                fakeable_created_callbacks[i] = invocations[Len(invocations)].cb
    /\ (Over /\ before.op = "construct" /\ before.status = "raised") =>
          /\ outcome.status = "raised"
          /\ outcome.ret = before.ret

C27_CallbacksChangeOnlyByTheirFunctions ==
    /\ [][ /\ fakeable_created_callbacks' # fakeable_created_callbacks =>
                 outcome'.op \in ChangesOfCallbacks
           /\ outcome'.op = "construct" =>
                 /\ fake_factories' = fake_factories
                 /\ fakeable_created_callbacks' = fakeable_created_callbacks ]_vars
    /\ []RaiserStaysRegistered

\* Two constructions in a row were ended by the raising callback, after
\* another callback had been invoked, with a fake registered.
C27_Witness ==
    /\ Over
    /\ outcome.status = "raised"
    /\ before.op = "construct"
    /\ before.status = "raised"
    /\ Len(invocations) = 2
    /\ invocations[2].cb = "raiser"
    /\ fakeable_created_callbacks = <<"callback1", "raiser">>
    /\ DOMAIN fake_factories # {}

(***************************************************************************)
(* C29                                                                     *)
(***************************************************************************)

\* The callbacks that a callback invoked in the latest construction removed.
RemovedInNotification ==
    {"callback1" : i \in {j \in 1..Len(invocations) : invocations[j].cb = "remover1"}}
    \cup {"self_remover" : i \in {j \in 1..Len(invocations) :
                                     invocations[j].cb = "self_remover"}}

ClearedInNotification == \E i \in 1..Len(invocations) : invocations[i].cb = "clearer"

\* C29: when callbacks remove callbacks from the list while a notification
\* is in progress, themselves or others, every callback that was registered
\* when the notification started and has not been removed is still invoked
\* for that construction, once for each of its registrations: every
\* callback still listed when the construction returns has been invoked as
\* often as it is listed, at least, and exactly as often unless it was one
\* of those removed.
C29_RemovalDuringNotificationSkipsNobody ==
    (Returned /\ ~ClearedInNotification) =>
        \A cb \in ReentrantCallbacks :
            /\ Listed(cb) <= Invoked(cb)
            /\ cb \notin RemovedInNotification => Listed(cb) = Invoked(cb)

(***************************************************************************)
(* C30                                                                     *)
(***************************************************************************)

\* C30: once clear() has returned, no callback registered before it is
\* invoked again unless it is added again: a construction right after
\* clear() invokes no callback, and when a callback calls clear() while a
\* notification is in progress, the callbacks later in that notification
\* are not invoked, so the callback that called clear() is the last one
\* invoked.
C30_NoInvocationAfterClear ==
    /\ (outcome.op = "construct" /\ before.op = "clear") => invocations = <<>>
    /\ \A i \in 1..Len(invocations) :
          invocations[i].cb = "clearer" => i = Len(invocations)

(***************************************************************************)
(* C31                                                                     *)
(***************************************************************************)

\* How often list holds x.
Occurrences(list, x) == Cardinality({i \in 1..Len(list) : list[i] = x})

\* How often the call-th notify_fakeable_created call of the latest
\* construction has invoked cb.
InvokedIn(call, cb) ==
    Cardinality({i \in 1..Len(invocations) :
                    invocations[i].call = call /\ invocations[i].cb = cb})

\* C31: every notification invokes a finite number of callbacks, also when
\* a callback calls add_created_callback while the notification is in
\* progress: the callback added is first invoked at the next construction,
\* so a notification invokes a callback at most as often as the list held
\* it when the notification began.
C31_AddedCallbackWaitsForNextConstruction ==
    \A call \in 1..Len(notifications) :
        \A cb \in AddingCallbacks :
            InvokedIn(call, cb) <= Occurrences(notifications[call].callbacks, cb)

(***************************************************************************)
(* C32: every construction terminates, with an instance or with an error,  *)
(* whatever the registry holds.  When the overrides lead from the entity   *)
(* back to an entity already under construction (the entity registered as  *)
(* its own fake class, or two entities registered as each other's), the    *)
(* construction ends with RecursionError; otherwise it returns an object.  *)
(***************************************************************************)

\* The Fakeable class that the construction of cls calls as its fake class,
\* "" when the construction of cls calls none.
Target(cls) ==
    LET e == fake_factories[KeyInEffect(cls)]
    IN IF KeyInEffect(cls) # NoKey /\ e.kind = "class" /\ e.cls \in Entities
       THEN e.cls
       ELSE ""

\* n fake classes in a row, from cls on, are Fakeable.
RECURSIVE Chain(_, _)
Chain(cls, n) ==
    IF n = 0 THEN TRUE
    ELSE Target(cls) # "" /\ Chain(Target(cls), n - 1)

\* The overrides lead from cls back to an entity on the way.
LeadsBack(cls) == Chain(cls, Cardinality(Entities))

EndsWithInstanceOrError ==
    Over =>
        /\ outcome.status \in {"returned", "raised"}
        /\ outcome.status = "raised" <=> LeadsBack(outcome.cls)
        /\ outcome.status = "returned" => outcome.value # NoObj
        /\ outcome.status = "raised" => outcome.ret = "RecursionError"

C32_ConstructionTerminates ==
    /\ (stack # <<>>) ~> (stack = <<>>)
    /\ []EndsWithInstanceOrError

\* Two entities were registered as each other's fake class, one by class
\* and one by name, with a callback registered: the construction ended with
\* RecursionError and no callback was invoked.
C32_Witness ==
    /\ Over
    /\ outcome.ret = "RecursionError"
    /\ Target(outcome.cls) # outcome.cls
    /\ Target(Target(outcome.cls)) = outcome.cls
    /\ fakeable_created_callbacks # <<>>
    /\ invocations = <<>>

(***************************************************************************)
(* C33: an override registered under a name diverts the construction of    *)
(* every entity that carries this name, two entities with the same name    *)
(* both, except an entity that has an override under its own identity; an  *)
(* override registered under an identity diverts the construction of that  *)
(* entity only, not of another entity with the same name and not of a      *)
(* subtype.                                                                *)
(***************************************************************************)

\* The entities other than cls that have the name of cls or are a base
\* class of cls.
Relatives(cls) ==
    {c \in DOMAIN types \ {cls} :
        \/ FAKE_NAME(c) = FAKE_NAME(cls)
        \/ \E i \in 1..Len(Bases(cls)) : Bases(cls)[i] = c}

DivertedByName ==
    ( /\ Returned
      /\ ~Registered(ClassKey(outcome.cls))
      /\ Registered(NameKey(types[outcome.cls].attrs["__FAKE_NAME__"])) )
    => ProducedBy(fake_factories[NameKey(types[outcome.cls].attrs["__FAKE_NAME__"])],
                  outcome.value, outcome.args)

DivertedByOwnIdentity ==
    (Returned /\ Registered(ClassKey(outcome.cls)))
    => ProducedBy(fake_factories[ClassKey(outcome.cls)], outcome.value, outcome.args)

NotDivertedByIdentityOfRelative ==
    ( /\ Returned
      /\ ~Registered(ClassKey(outcome.cls))
      /\ ~Registered(NameKey(types[outcome.cls].attrs["__FAKE_NAME__"])) )
    => GenuineNew(outcome.value, outcome.cls, outcome.args)

C33_NameDivertsAllIdentityDivertsOne ==
    /\ DivertedByName
    /\ DivertedByOwnIdentity
    /\ NotDivertedByIdentityOfRelative

\* MyCoolClass has a fixed object registered under its identity, and an
\* ordinary class is registered under the name that MyCoolClass and its
\* subclass share: a construction of MyCoolClass returned the fixed object,
\* the construction of the subclass that followed returned a new instance of
\* the ordinary class.
C33_Witness ==
    /\ Returned
    /\ outcome.cls = "MyCoolSubclass"
    /\ Relatives(outcome.cls) = {"MyCoolClass"}
    /\ FAKE_NAME("MyCoolSubclass") = FAKE_NAME("MyCoolClass")
    /\ Registered(ClassKey("MyCoolClass"))
    /\ Registered(NameKey("MyCoolClass"))
    /\ fake_factories[ClassKey("MyCoolClass")].obj = fake_object1

    /\ fake_factories[NameKey("MyCoolClass")].cls = "MyUnfakeableClass1"
    /\ before.op = "construct"
    /\ before.cls = "MyCoolClass"
    /\ before.value = fake_object1
    /\ GenuineNew(outcome.value, "MyUnfakeableClass1", outcome.args)

====
